---- MODULE Spec2Model ----
(***************************************************************************)
(* A model of the quantum sampling engine of atoms-visualizer:             *)
(*   src/src/physics.rs      QuantumNumbers, factorial, analytic sampler    *)
(*   src/src/bin/web.rs      tabulated samplers, radial CDF, /samples       *)
(*   src/src/main.rs         native viewer state                            *)
(*                                                                         *)
(* Conventions.                                                            *)
(*  - f32 values are modelled by exact integers or exact rationals         *)
(*    <<num, den>> (den > 0); float rounding is outside the model.         *)
(*  - Random draws (rand::thread_rng) are nondeterministic choices from    *)
(*    small sets.                                                          *)
(*  - u32/i32/u64 operations keep their width: an overflowing operation    *)
(*    panics in a build with overflow checks ("debug") and wraps in one    *)
(*    without ("release"); the variable build fixes which.                 *)
(*  - Each specification runs one family of calls; the variables of the    *)
(*    other families stay at their idle values.                            *)
(***************************************************************************)
EXTENDS Integers, Sequences, FiniteSets, TLC

VARIABLES
    build,      \* "debug" | "release": are integer overflow checks compiled in
    pc,         \* position of the call in progress
    arg_n,      \* QuantumNumbers::new: argument n (u32)
    arg_l,      \* QuantumNumbers::new: argument l (u32)
    arg_m,      \* QuantumNumbers::new: argument m_l (i32)
    qn,         \* result of QuantumNumbers::new: None, Some(..) or Panic
    fact,       \* the factorial calls finished so far, in order
    todo,       \* arguments of the factorial calls still to make
    prod,       \* the product loop of the factorial call in progress
    sampler,    \* the sampler being called
    num_samples,\* its argument num_samples (usize)
    max_radius, \* its argument max_radius (f32, here a positive integer)
    attempts,   \* its local attempts
    accepted,   \* the analytic sampler's local accepted
    samples,    \* the samples pushed so far
    rs,         \* a tabulated orbital's radial grid
    vs,         \* its radial values on that grid
    radial_kind,\* RadialKind of the values: "R" or "Chi"
    cdf,        \* the array build_radial_cdf returned
    draw_u,     \* the uniform draw u of sample_r
    query,      \* the argument r of interp_radial
    result,     \* the value the radial routine returned
    orbitals,   \* the orbital list a tabulated sampler is called with
    orb_idx,    \* the weighted sampler's loop index idx
    remaining,  \* the weighted sampler's local remaining
    requested,  \* the counts the weighted sampler has asked for, in order
    short,      \* whether some per-orbital call returned fewer than asked
    sub_count,  \* num_samples of the running from_radial call
    part,       \* the samples of the running from_radial call
    usable,     \* the isotropic sampler's local samplers
    weight_cdf, \* the isotropic sampler's local weight_cdf
    mode,       \* the /samples handler's requested_mode
    z,          \* its z
    second,     \* its <<n2, l2, m2>>
    lda,        \* what the LDA dataset holds for the request
    pslib,      \* what the PSlibrary dataset holds for the request
    stage,      \* the data source the handler is at
    response,   \* the response the handler returned
    calls,      \* the sampler routines the handler has called
    with_psi,   \* a superposition sampler's argument with_psi
    delta_e,    \* its argument delta_e, in quarter turns per unit of time
    time,       \* its argument time
    cdf_a,      \* its local cdf_a
    cdf_b,      \* its local cdf_b
    pick_a,     \* its local pick_a of the attempt in progress
    spin,       \* parity of the rejected trials of its angular loop
    proposal,   \* its local proposal of the last iteration that got there
    psi1,       \* the amplitudes it pushed to psi1
    psi2,       \* the amplitudes it pushed to psi2
    e1,         \* the handler's local e1 of the hydrogenic superposition
    e2,         \* its local e2
    handler_delta_e, \* its local delta_e
    points,     \* the argument samples of the reconstructors
    descs,      \* the orbital(s) they are called for
    family,     \* which family of reconstructors is called
    runs,       \* the reconstructor calls made, with what each returned
    loader,     \* which dataset loader the two concurrent calls run
    file,       \* the local file of the element
    cache,      \* the entry of the element in ELEMENT_CACHE
    load_pc,    \* the position of each of the two calls
    element,    \* the local element of each call
    loaded,     \* what each call returned
    trials,     \* the angular trials made for the radius in hand
    basis,      \* AngularBasis of the analytic sampler: "Complex" or "Real"
    peak,       \* the scan node where the radial and polar factors peak
    max_prob,   \* the envelope find_max_probability_basis returned
    proposed,   \* the proposal of the loop iteration and its density
    divisor,    \* the divisor of the superposition acceptance ratio, if any
    fn_args,    \* the arguments of the function under call
    fn_ret,     \* the value it returned
    app_state   \* the native viewer's AppState

varsQN == <<arg_n, arg_l, arg_m, qn, fact, todo, prod>>

varsCall == <<sampler, num_samples, max_radius, attempts, accepted, samples>>

varsRadial == <<rs, vs, radial_kind, cdf, draw_u, query, result>>

varsTab == <<orbitals, orb_idx, remaining, requested, short, sub_count, part,
             usable, weight_cdf>>

varsHandler == <<mode, z, second, lda, pslib, stage, response, calls>>

varsSuper == <<with_psi, delta_e, time, cdf_a, cdf_b, pick_a, spin,
               proposal, psi1, psi2, divisor>>

varsEnergy == <<e1, e2, handler_delta_e>>

\* The state of the routines the specifications further down are about.
varsRecon == <<points, descs, family, runs>>

varsCache == <<loader, file, cache, load_pc, element, loaded>>

varsEnvelope == <<basis, peak, max_prob, proposed>>

varsPure == <<fn_args, fn_ret>>

varsMore ==
    <<varsSuper, varsEnergy, varsRecon, varsCache, trials, varsEnvelope,
      varsPure, app_state>>

\* What the sampling loops and the radial routines never touch.
notSampling == <<build, varsQN, varsHandler, varsMore>>

\* What the hydrogenic wavefunction routines never touch.
notQN == <<varsCall, varsRadial, varsTab, varsHandler, varsMore>>

vars == <<build, pc, varsQN, varsCall, varsRadial, varsTab, varsHandler,
          varsMore>>

(***************************************************************************)
(* Bounds of the model.                                                    *)
(***************************************************************************)
MaxN == 11      \* n and l are drawn from 0..MaxN
MaxM == 2       \* m_l is drawn from -MaxM..MaxM and the two ends of i32

(***************************************************************************)
(* Machine integers.                                                       *)
(***************************************************************************)
I32Max == 2147483647
I32Min == -I32Max - 1

Builds == {"debug", "release"}

None == [tag |-> "None"]
Panic == [tag |-> "Panic"]
Some(v) == [tag |-> "Some", val |-> v]

\* i32::abs: overflows on i32::MIN (panic with overflow checks, else wraps to
\* i32::MIN itself).
AbsI32(x) ==
    IF x = I32Min THEN [overflow |-> TRUE, val |-> I32Min]
    ELSE [overflow |-> FALSE, val |-> IF x < 0 THEN -x ELSE x]

\* `l as i32`: the low 32 bits reinterpreted as signed.
AsI32(u) == IF u <= I32Max THEN u ELSE ((u - I32Max) - 1) - I32Max - 1

\* u32 subtraction a - b: underflows when a < b.
SubU32(a, b) == [underflow |-> a < b, val |-> IF a < b THEN 0 ELSE a - b]

(***************************************************************************)
(* u64 arithmetic on four 16-bit limbs, least significant first.           *)
(***************************************************************************)
Limb == 2^16

U64One == <<1, 0, 0, 0>>

\* x * k for a u64 x and a small k (k < 2^15): the low 64 bits and whether
\* the product exceeded 64 bits.
MulU64(x, k) ==
    LET p1 == x[1] * k
        p2 == x[2] * k + (p1 \div Limb)
        p3 == x[3] * k + (p2 \div Limb)
        p4 == x[4] * k + (p3 \div Limb)
    IN  [val |-> <<p1 % Limb, p2 % Limb, p3 % Limb, p4 % Limb>>,
         overflow |-> (p4 \div Limb) > 0]

(***************************************************************************)
(* physics.rs: QuantumNumbers::new                                         *)
(*   if n == 0 || l >= n || m_l.abs() > l as i32 { return None; }          *)
(* The || short-circuits, so m_l.abs() is evaluated only when n >= 1 and   *)
(* l < n.                                                                  *)
(***************************************************************************)
QuantumNumbers_new(b, n, l, m_l) ==
    IF n = 0 \/ l >= n THEN None
    ELSE LET a == AbsI32(m_l) IN
         IF a.overflow /\ b = "debug" THEN Panic
         ELSE IF a.val > AsI32(l) THEN None
         ELSE Some([n |-> n, l |-> l, m_l |-> m_l])

\* The mathematical validity of (n, l, m): n >= 1, 0 <= l <= n-1, |m| <= l.
ValidQN(n, l, m_l) == n >= 1 /\ l <= n - 1 /\ -l <= m_l /\ m_l <= l

(***************************************************************************)
(* Specification SpecQN: one QuantumNumbers::new call, then one            *)
(* evaluation of probability_density on the result (radial_wavefunction,   *)
(* then spherical_harmonic).  Each factorial call runs its product loop    *)
(* (1..=n as u64).product() one multiplication per step.                   *)
(***************************************************************************)
MValues == (-MaxM .. MaxM) \cup {I32Min, I32Max}

AddU32(a, b) == [underflow |-> FALSE, val |-> a + b]

NoProduct == [fn |-> "none"]

\* The call factorial(arg.val) made from function fn, about to start its loop.
StartProduct(fn, arg) ==
    [fn |-> fn, n |-> arg.val, i |-> 1, acc |-> U64One, overflow |-> FALSE]

\* The arguments of the factorial calls of a function whose argument
\* expressions are args, in order; an underflowing argument is logged at once
\* (the subtraction panics, or wraps to a value near 2^32 whose product loop
\* is outside the model) and ends the evaluation.
Underflows(args) == \E k \in DOMAIN args : args[k].underflow

UnderflowEntry(fn) ==
    [fn |-> fn, arg |-> 0, underflow |-> TRUE, overflow |-> FALSE]

\* No sampler call in progress.
IdleCall ==
    /\ sampler = "none"
    /\ num_samples = 0
    /\ max_radius = 1
    /\ attempts = 0
    /\ accepted = 0
    /\ samples = <<>>

NoChannels ==
    [signs |-> None, phases |-> None, intensities |-> None,
     psi1 |-> None, psi2 |-> None]

NoResponse ==
    [source |-> "none", mode |-> "none", count |-> 0, samples |-> 0,
     channels |-> NoChannels]

\* No request in progress.
IdleHandler ==
    /\ mode = "total"
    /\ z = 1
    /\ second = <<1, 0, 0>>
    /\ lda = "unavailable"
    /\ pslib = "unavailable"
    /\ stage = "none"
    /\ response = NoResponse
    /\ calls = <<>>

\* No tabulated sampler call in progress.
IdleTab ==
    /\ orbitals = <<>>
    /\ orb_idx = 0
    /\ remaining = 0
    /\ requested = <<>>
    /\ short = FALSE
    /\ sub_count = 0
    /\ part = <<>>
    /\ usable = <<>>
    /\ weight_cdf = <<>>

\* No tabulated orbital in hand.
IdleRadial ==
    /\ rs = <<>>
    /\ vs = <<>>
    /\ radial_kind = "R"
    /\ cdf = <<>>
    /\ draw_u = <<0, 1>>
    /\ query = <<0, 1>>
    /\ result = <<0, 1>>

\* No superposition sampler call in progress.
IdleSuper ==
    /\ with_psi = FALSE
    /\ delta_e = 0
    /\ time = 0
    /\ cdf_a = <<>>
    /\ cdf_b = <<>>
    /\ pick_a = FALSE
    /\ spin = FALSE
    /\ proposal = <<0, 1>>
    /\ psi1 = <<>>
    /\ psi2 = <<>>
    /\ divisor = [tag |-> "None"]

\* No level energy computed.
IdleEnergy ==
    /\ e1 = None
    /\ e2 = None
    /\ handler_delta_e = None

\* No reconstructor called.
IdleRecon ==
    /\ points = <<>>
    /\ descs = <<>>
    /\ family = "none"
    /\ runs = <<>>

\* No dataset load in progress.
IdleCache ==
    /\ loader = "none"
    /\ file = "absent"
    /\ cache = "none"
    /\ load_pc = <<"done", "done">>
    /\ element = <<"none", "none">>
    /\ loaded = <<"none", "none">>

\* No angular loop in progress.
IdleTrials == trials = 0

\* No function under call.
IdlePure ==
    /\ fn_args = <<>>
    /\ fn_ret = <<>>

\* No viewer running.
IdleViewer == app_state = <<>>

\* No envelope scan in progress.
IdleEnvelope ==
    /\ basis = "Complex"
    /\ peak = <<0, 0>>
    /\ max_prob = <<0, 1>>
    /\ proposed = [i |-> 0, j |-> 0, phi |-> [sin |-> 0, cos |-> 5],
                   prob |-> <<0, 1>>, made |-> FALSE]

IdleMore ==
    /\ IdleSuper
    /\ IdleEnergy
    /\ IdleRecon
    /\ IdleCache
    /\ IdleTrials
    /\ IdleEnvelope
    /\ IdlePure
    /\ IdleViewer

\* No QuantumNumbers::new call in progress.
IdleQN ==
    /\ arg_n = 0
    /\ arg_l = 0
    /\ arg_m = 0
    /\ qn = None
    /\ fact = <<>>
    /\ todo = <<>>
    /\ prod = NoProduct

InitQN ==
    /\ IdleMore
    /\ IdleHandler
    /\ IdleCall
    /\ IdleRadial
    /\ IdleTab
    /\ build \in Builds
    /\ pc = "new"
    /\ arg_n \in 0 .. MaxN
    /\ arg_l \in 0 .. MaxN
    /\ arg_m \in MValues
    /\ qn = None
    /\ fact = <<>>
    /\ todo = <<>>
    /\ prod = NoProduct

\* QuantumNumbers::new(n, l, m_l)
New ==
    /\ pc = "new"
    /\ qn' = QuantumNumbers_new(build, arg_n, arg_l, arg_m)
    /\ pc' = IF qn'.tag = "Panic" THEN "panicked" ELSE "validated"
    /\ UNCHANGED <<build, arg_n, arg_l, arg_m, fact, todo, prod, notQN>>

\* A function with factorial arguments args starts evaluating them.
CallFactorials(fn, args, next) ==
    IF Underflows(args)
    THEN /\ fact' = Append(fact, UnderflowEntry(fn))
         /\ pc' = IF build = "debug" THEN "panicked" ELSE "wrapped_argument"
         /\ UNCHANGED <<todo, prod>>
    ELSE /\ prod' = StartProduct(fn, args[1])
         /\ todo' = Tail(args)
         /\ pc' = next
         /\ UNCHANGED fact

\* radial_wavefunction(r, n, l): factorial(n - l - 1) and factorial(n + l)
RadialWavefunction ==
    /\ pc = "validated"
    /\ qn.tag = "Some"
    /\ LET q == qn.val
           d == SubU32(q.n, q.l)
           e == SubU32(d.val, 1)
       IN  CallFactorials("radial_wavefunction",
                          << [underflow |-> d.underflow \/ e.underflow,
                              val |-> e.val],
                             AddU32(q.n, q.l) >>,
                          "radial")
    /\ UNCHANGED <<build, arg_n, arg_l, arg_m, qn, notQN>>

\* factorial: one step of (1..=n as u64).product().  With overflow checks
\* the overflowing multiplication panics; without, the product wraps.
FactorialStep ==
    /\ pc \in {"radial", "spherical"}
    /\ prod # NoProduct
    /\ prod.i <= prod.n
    /\ LET m == MulU64(prod.acc, prod.i) IN
       IF m.overflow /\ build = "debug"
       THEN /\ fact' = Append(fact, [fn |-> prod.fn, arg |-> prod.n,
                                     underflow |-> FALSE, overflow |-> TRUE])
            /\ pc' = "panicked"
            /\ prod' = NoProduct
       ELSE /\ prod' = [prod EXCEPT !.i = prod.i + 1, !.acc = m.val,
                                    !.overflow = prod.overflow \/ m.overflow]
            /\ UNCHANGED <<fact, pc>>
    /\ UNCHANGED <<build, arg_n, arg_l, arg_m, qn, todo, notQN>>

\* factorial returns: the call is logged and the next one starts.
FactorialReturn ==
    /\ pc \in {"radial", "spherical"}
    /\ prod # NoProduct
    /\ prod.i > prod.n
    /\ fact' = Append(fact, [fn |-> prod.fn, arg |-> prod.n,
                             underflow |-> FALSE, overflow |-> prod.overflow])
    /\ IF todo = <<>>
       THEN prod' = NoProduct /\ todo' = todo
       ELSE prod' = StartProduct(prod.fn, todo[1]) /\ todo' = Tail(todo)
    /\ UNCHANGED <<build, pc, arg_n, arg_l, arg_m, qn, notQN>>

\* spherical_harmonic(theta, phi, l, m_l): m_abs = m_l.abs() as u32, then
\* factorial(l - m_abs) and factorial(l + m_abs).  m_l.abs() overflows only
\* for i32::MIN; its wrapped value as u32 is 2^31, larger than every l drawn.
SphericalHarmonic ==
    /\ pc = "radial"
    /\ prod = NoProduct
    /\ LET q == qn.val
           a == AbsI32(q.m_l)
       IN  IF a.overflow
           THEN /\ pc' = IF build = "debug" THEN "panicked"
                         ELSE "wrapped_argument"
                /\ fact' = Append(fact, UnderflowEntry("spherical_harmonic"))
                /\ UNCHANGED <<todo, prod>>
           ELSE CallFactorials("spherical_harmonic",
                               << SubU32(q.l, a.val), AddU32(q.l, a.val) >>,
                               "spherical")
    /\ UNCHANGED <<build, arg_n, arg_l, arg_m, qn, notQN>>

\* probability_density returns.
Evaluated ==
    /\ pc = "spherical"
    /\ prod = NoProduct
    /\ pc' = "evaluated"
    /\ UNCHANGED <<build, arg_n, arg_l, arg_m, qn, fact, todo, prod, notQN>>

NextQN ==
    \/ New
    \/ RadialWavefunction
    \/ FactorialStep
    \/ FactorialReturn
    \/ SphericalHarmonic
    \/ Evaluated

SpecQN == InitQN /\ [][NextQN]_vars

(***************************************************************************)
(* C1.  For every unsigned n, l and signed m, QuantumNumbers::new(n, l, m) *)
(* returns Some carrying exactly n, l, m if and only if n >= 1 and         *)
(* 0 <= l <= n-1 and |m| <= l; otherwise it returns None.                  *)
(* The claim as stated; the code violates it at m = i32::MIN.              *)
(***************************************************************************)
C1_NewIffValid ==
    pc # "new" =>
        IF ValidQN(arg_n, arg_l, arg_m)
        THEN qn = Some([n |-> arg_n, l |-> arg_l, m_l |-> arg_m])
        ELSE qn = None

(***************************************************************************)
(* C7.  factorial never overflows its 64-bit result and its argument is    *)
(* never formed by an underflowing unsigned subtraction, for every valid   *)
(* (n, l, m): factorial(n+l), factorial(n-l-1), factorial(l+|m|),          *)
(* factorial(l-|m|).  The claim as stated; the code violates it from       *)
(* n + l = 21 on.                                                          *)
(***************************************************************************)
C7_FactorialFits64 ==
    ValidQN(arg_n, arg_l, arg_m) =>
        \A i \in DOMAIN fact : ~fact[i].overflow /\ ~fact[i].underflow

(***************************************************************************)
(* The analytic rejection sampler: generate_orbital_samples and            *)
(* generate_orbital_samples_basis.  Lengths are exact rationals; an angle  *)
(* is the record of its sine and cosine in fifths, so that the spherical   *)
(* to Cartesian conversion is exact.  A sample is [x, y, z, den] standing  *)
(* for the point (x/den, y/den, z/den).                                    *)
(***************************************************************************)
MaxSamples == 2

BudgetFactor == 100

AnalyticSamplers == {"generate_orbital_samples", "generate_orbital_samples_basis"}

\* max_radius as the callers pass it: at least 1.0 (handler), 20.0 (viewer).
MaxRadii == {1, 20}

\* Valid quantum numbers the sampler is called with, the factorial-heavy
\* end of the range included.
SamplerQNs == {<<1, 0, 0>>, <<MaxN, MaxN - 1, 0>>}

\* rng.gen::<f32>().powf(1.0 / 3.0), a fraction in [0, 1]: an interior
\* value and the largest one.
CubeRootDraws == {<<1, 2>>, <<1, 1>>}

\* theta = acos(cos_theta) with cos_theta in [-1, 1): sin(theta) >= 0.
ThetaDraws == {[sin |-> 0, cos |-> -5], [sin |-> 3, cos |-> 4]}

\* phi in [0, 2 pi).
PhiDraws == {[sin |-> 4, cos |-> 3]}

\* let max_attempts = num_samples * 100
MaxAttempts(n) == n * BudgetFactor

LoopContinues_OffByOne(acc, att, n) == acc <= n /\ att < MaxAttempts(n)

\* while accepted < num_samples && attempts < max_attempts
LoopContinues(acc, att, n) == acc < n /\ att < MaxAttempts(n)

ProposalRadius_Diameter(R, c) == <<2 * R * c[1], c[2]>>

\* let r = max_radius * rng.gen::<f32>().powf(1.0 / 3.0)
ProposalRadius(R, c) == <<R * c[1], c[2]>>

\* x = r sin(theta) cos(phi), y = r sin(theta) sin(phi), z = r cos(theta)
Cartesian(r, theta, phi) ==
    [x   |-> r[1] * theta.sin * phi.cos,
     y   |-> r[1] * theta.sin * phi.sin,
     z   |-> r[1] * theta.cos * 5,
     den |-> r[2] * 25]

NormSq(p) == p.x * p.x + p.y * p.y + p.z * p.z

\* The point p lies within distance R of the origin.
WithinRadius(p, R) == NormSq(p) <= (R * p.den) * (R * p.den)

\* The sampler is entered with valid quantum numbers; find_max_probability
\* evaluates probability_density (the factorial calls above) before the loop.
InitAnalytic ==
    /\ IdleMore
    /\ IdleHandler
    /\ IdleRadial
    /\ IdleTab
    /\ build \in Builds
    /\ pc = "validated"
    /\ \E q \in SamplerQNs :
          /\ arg_n = q[1]
          /\ arg_l = q[2]
          /\ arg_m = q[3]
          /\ qn = Some([n |-> q[1], l |-> q[2], m_l |-> q[3]])
    /\ fact = <<>>
    /\ todo = <<>>
    /\ prod = NoProduct
    /\ sampler \in AnalyticSamplers
    /\ num_samples \in 0..MaxSamples
    /\ max_radius \in MaxRadii
    /\ attempts = 0
    /\ accepted = 0
    /\ samples = <<>>

\* One iteration of the rejection loop.
Attempt ==
    /\ pc = "evaluated"
    /\ sampler \in AnalyticSamplers
    /\ LoopContinues(accepted, attempts, num_samples)
    /\ attempts' = attempts + 1
    /\ \E c \in CubeRootDraws, theta \in ThetaDraws, phi \in PhiDraws,
          accept \in BOOLEAN :
          LET r == ProposalRadius(max_radius, c) IN
          IF accept
          THEN /\ samples' = Append(samples, Cartesian(r, theta, phi))
               /\ accepted' = accepted + 1
          ELSE UNCHANGED <<samples, accepted>>
    /\ UNCHANGED <<notSampling, pc, sampler, num_samples, max_radius,
                   varsRadial, varsTab>>

\* The loop condition fails and the function returns samples.
AnalyticReturn ==
    /\ pc = "evaluated"
    /\ sampler \in AnalyticSamplers
    /\ ~LoopContinues(accepted, attempts, num_samples)
    /\ pc' = "returned"
    /\ UNCHANGED <<notSampling, notQN>>

NextAnalytic ==
    \/ RadialWavefunction
    \/ FactorialStep
    \/ FactorialReturn
    \/ SphericalHarmonic
    \/ Evaluated
    \/ Attempt
    \/ AnalyticReturn

\* The sampler is sequential code that runs until it returns or panics.
SpecAnalytic == InitAnalytic /\ [][NextAnalytic]_vars /\ WF_vars(NextAnalytic)

(***************************************************************************)
(* C3.  The analytic sampler terminates (it returns, or it panics in the   *)
(* factorial before the loop) after at most num_samples * 100 attempts,    *)
(* never holds more than num_samples samples, and when it returns either   *)
(* exactly num_samples were accepted or the attempt budget is exhausted.   *)
(***************************************************************************)
C3_BoundedRejectionLoop ==
    /\ [](/\ attempts <= num_samples * BudgetFactor
          /\ Len(samples) <= num_samples
          /\ accepted = Len(samples)
          /\ pc = "returned" =>
                \/ accepted = num_samples
                \/ attempts = num_samples * BudgetFactor)
    /\ <>(pc \in {"returned", "panicked"})

\* The budget ran out with some, but not all, of the samples accepted.
C3_BudgetExhausted ==
    /\ pc = "returned"
    /\ attempts = num_samples * BudgetFactor
    /\ 0 < Len(samples)
    /\ Len(samples) < num_samples

(***************************************************************************)
(* C4.  Every sample pushed by the analytic sampler lies within distance   *)
(* max_radius of the origin.                                               *)
(***************************************************************************)
C4_SamplesWithinMaxRadius ==
    \A i \in DOMAIN samples : WithinRadius(samples[i], max_radius)

\* A returned sample off the axis at the largest proposal radius.
C4_SampleAtMaxRadius ==
    /\ pc = "returned"
    /\ \E i \in DOMAIN samples :
          /\ samples[i].x # 0
          /\ samples[i].y # 0
          /\ NormSq(samples[i]) =
                (max_radius * samples[i].den) * (max_radius * samples[i].den)

(***************************************************************************)
(* The tabulated radial routines of the web server: build_radial_cdf,      *)
(* sample_r and interp_radial.  Grid points and radial values are          *)
(* integers; a CDF entry, a uniform draw, a query radius and a returned    *)
(* value are exact rationals <<numerator, denominator>> with a positive    *)
(* denominator.  Indices are the code's, counted from 0.                   *)
(***************************************************************************)
MaxGrid == 3

GridPoints == 0..MaxGrid

RadialValues == {-1, 0, 1}

RadialKinds == {"R", "Chi"}

\* Strictly ascending grids, the empty one included.
Grids ==
    {g \in UNION {[1..k -> GridPoints] : k \in 0..MaxGrid} :
        \A i \in 1..(Len(g) - 1) : g[i] < g[i + 1]}

\* Value arrays of any length, whatever the grid's.
ValueArrays == UNION {[1..k -> RadialValues] : k \in 0..MaxGrid}

\* rng.gen::<f32>() in [0, 1).
UDraws == {<<0, 1>>, <<1, 4>>, <<1, 2>>, <<3, 4>>}

\* The radii interp_radial is asked about: half grid steps.
Queries == {<<k, 2>> : k \in 0..(2 * MaxGrid + 1)}

RatLt(a, b) == a[1] * b[2] < b[1] * a[2]

RatLe(a, b) == a[1] * b[2] <= b[1] * a[2]

RatEq(a, b) == a[1] * b[2] = b[1] * a[2]

\* slice[i], or a panic past the end.
InBounds(slice, i) == i < Len(slice)

At(slice, i) == slice[i + 1]

Min(a, b) == IF a <= b THEN a ELSE b

Max(a, b) == IF a >= b THEN a ELSE b

Lerp_FromUpper(a0, a1, t) == <<a1 * t[2] + (a1 - a0) * t[1], t[2]>>

\* a0 + (a1 - a0) * t
Lerp(a0, a1, t) == <<a0 * t[2] + (a1 - a0) * t[1], t[2]>>

Fraction_FromUpper(x, lo, hi) ==
    IF RatLt(lo, hi)
    THEN <<(hi[1] * x[2] - x[1] * hi[2]) * lo[2],
           (hi[1] * lo[2] - lo[1] * hi[2]) * x[2]>>
    ELSE <<0, 1>>

\* if hi > lo { (x - lo) / (hi - lo) } else { 0.0 }
Fraction(x, lo, hi) ==
    IF RatLt(lo, hi)
    THEN <<(x[1] * lo[2] - lo[1] * x[2]) * hi[2],
           (hi[1] * lo[2] - lo[1] * hi[2]) * x[2]>>
    ELSE <<0, 1>>

\* slice.binary_search_by(|v| v.partial_cmp(&key).unwrap()) on a sorted
\* slice: Ok(i) for any i holding the key, else Err(insertion point).
BinarySearch(slice, key) ==
    LET hits == {i \in 0..(Len(slice) - 1) : RatEq(At(slice, i), key)}
    IN  IF hits # {}
        THEN {[ok |-> TRUE, i |-> i] : i \in hits}
        ELSE {[ok |-> FALSE,
               i  |-> Cardinality({j \in 0..(Len(slice) - 1) :
                                      RatLt(At(slice, j), key)})]}

\* w0, w1: r * r for RadialKind::R, 1.0 for RadialKind::Chi.
RadialWeight(kind, r) == IF kind = "R" THEN r * r ELSE 1

\* Twice the trapezoid area of cell i (the common factor 0.5 cancels in the
\* normalisation).
Area2(g, v, R, kind, i) ==
    IF At(g, i) <= R
    THEN (At(v, i - 1) * At(v, i - 1) * RadialWeight(kind, At(g, i - 1))
          + At(v, i) * At(v, i) * RadialWeight(kind, At(g, i)))
         * (At(g, i) - At(g, i - 1))
    ELSE 0

RECURSIVE Total2(_, _, _, _, _)
\* total after the loop has handled cells 1..i
Total2(g, v, R, kind, i) ==
    IF i <= 0 THEN 0
    ELSE Total2(g, v, R, kind, i - 1) + Area2(g, v, R, kind, i)

build_radial_cdf(g, v, R, kind) ==
    IF Len(g) >= 2 /\ ~InBounds(v, Len(g) - 1)
    THEN [panic |-> TRUE, val |-> <<>>]
    ELSE LET total == Total2(g, v, R, kind, Len(g) - 1)
         IN  [panic |-> FALSE,
              val   |-> [k \in 1..Len(g) |->
                            IF total > 0
                            THEN <<Total2(g, v, R, kind, k - 1), total>>
                            ELSE <<0, 1>>]]

Crash == [panic |-> TRUE, val |-> <<0, 1>>]

Value(x) == [panic |-> FALSE, val |-> x]

\* sample_r after the binary search returned o.  `cdf.len() - 1` underflows
\* on an empty cdf: a panic with overflow checks, usize::MAX without.
sample_r_at(b, c, g, uu, o) ==
    IF ~o.ok /\ Len(c) = 0 /\ b = "debug" THEN Crash
    ELSE LET idx == IF o.ok \/ Len(c) = 0 THEN o.i
                    ELSE Min(o.i, Len(c) - 1)
         IN  IF idx = 0
             THEN IF InBounds(g, 0) THEN Value(<<At(g, 0), 1>>) ELSE Crash
             ELSE IF ~InBounds(g, idx) THEN Crash
             ELSE Value(Lerp(At(g, idx - 1), At(g, idx),
                             Fraction(uu, At(c, idx - 1), At(c, idx))))

\* The outcomes of sample_r(cdf, rs, rng) when the generator draws uu.
sample_r(b, c, g, uu) ==
    {sample_r_at(b, c, g, uu, o) : o \in BinarySearch(c, uu)}

\* interp_radial past its early returns, the binary search having returned o.
interp_radial_at(r, g, v, o) ==
    LET idx == IF o.ok THEN o.i ELSE Min(o.i, Len(g) - 1)
    IN  IF idx = 0 THEN Value(<<At(v, 0), 1>>)
        ELSE IF ~InBounds(v, idx) THEN Crash
        ELSE Value(Lerp(At(v, idx - 1), At(v, idx),
                        Fraction(r, <<At(g, idx - 1), 1>>, <<At(g, idx), 1>>)))

\* The outcomes of interp_radial(r, rs, vs).
interp_radial(r, g, v) ==
    IF Len(g) = 0 \/ Len(v) = 0 THEN {Value(<<0, 1>>)}
    ELSE IF RatLe(r, <<At(g, 0), 1>>) THEN {Value(<<At(v, 0), 1>>)}
    ELSE IF RatLe(<<At(g, Len(g) - 1), 1>>, r)
         THEN {Value(<<At(v, Len(v) - 1), 1>>)}
    ELSE {interp_radial_at(r, g, v, o) :
             o \in BinarySearch([k \in DOMAIN g |-> <<g[k], 1>>], r)}

InitRadial ==
    /\ IdleMore
    /\ IdleHandler
    /\ IdleQN
    /\ IdleTab
    /\ build \in Builds
    /\ pc = "start"
    /\ sampler = "none"
    /\ num_samples = 0
    /\ max_radius \in 1..MaxGrid
    /\ attempts = 0
    /\ accepted = 0
    /\ samples = <<>>
    /\ rs \in Grids
    /\ vs \in ValueArrays
    /\ radial_kind \in RadialKinds
    /\ cdf = <<>>
    /\ draw_u = <<0, 1>>
    /\ query = <<0, 1>>
    /\ result = <<0, 1>>

BuildRadialCdf ==
    /\ pc = "start"
    /\ LET out == build_radial_cdf(rs, vs, max_radius, radial_kind)
       IN  /\ cdf' = out.val
           /\ pc' = IF out.panic THEN "panicked" ELSE "built"
    /\ UNCHANGED <<notSampling, varsCall, varsTab, rs, vs, radial_kind,
                   draw_u, query, result>>

SampleR ==
    /\ pc = "built"
    /\ \E uu \in UDraws :
          /\ draw_u' = uu
          /\ \E out \in sample_r(build, cdf, rs, uu) :
                /\ result' = out.val
                /\ pc' = IF out.panic THEN "panicked" ELSE "sampled"
    /\ UNCHANGED <<notSampling, varsCall, varsTab, rs, vs, radial_kind, cdf,
                   query>>

InterpRadial ==
    /\ pc = "start"
    /\ \E q \in Queries :
          /\ query' = q
          /\ \E out \in interp_radial(q, rs, vs) :
                /\ result' = out.val
                /\ pc' = IF out.panic THEN "panicked" ELSE "interpolated"
    /\ UNCHANGED <<notSampling, varsCall, varsTab, rs, vs, radial_kind, cdf,
                   draw_u>>

NextRadial ==
    \/ BuildRadialCdf
    \/ SampleR
    \/ InterpRadial

SpecRadial == InitRadial /\ [][NextRadial]_vars

NonDecreasing(c) == \A i \in 1..(Len(c) - 1) : RatLe(c[i], c[i + 1])

\* Twice the probability mass of the tabulated orbital inside max_radius.
TotalMass2 == Total2(rs, vs, max_radius, radial_kind, Len(rs) - 1)

(***************************************************************************)
(* C5.  The array build_radial_cdf returns is non-decreasing; it has the   *)
(* grid's length and ends at 1.0 when the total mass inside max_radius is  *)
(* positive, and it is empty when that mass is zero or the grid is empty.  *)
(* The claim as stated; the code violates it on a non-empty grid of zero   *)
(* mass.                                                                   *)
(***************************************************************************)
C5_CdfShape ==
    pc = "built" =>
        /\ NonDecreasing(cdf)
        /\ IF TotalMass2 > 0
           THEN Len(cdf) = Len(rs) /\ RatEq(cdf[Len(cdf)], <<1, 1>>)
           ELSE cdf = <<>>

(***************************************************************************)
(* C8.  build_radial_cdf, sample_r and interp_radial never panic on an     *)
(* index out of bounds or an underflowing index computation, whatever the  *)
(* grid and value slices.  The claim as stated; the code violates it on an *)
(* empty CDF and on a value array shorter than the grid.                   *)
(***************************************************************************)
C8_NoIndexPanic == pc # "panicked"

(***************************************************************************)
(* C9.  On a tabulated orbital (grid and values of one length, at least    *)
(* one point) interp_radial returns the first value for r at or below the  *)
(* first grid point, the last value for r at or above the last grid point, *)
(* and for r strictly inside the grid the linear interpolation between the *)
(* values at two grid points that bracket r, a value between those two;    *)
(* and it does not panic.                                                  *)
(***************************************************************************)
C9_InterpClampsAndInterpolates ==
    (Len(rs) = Len(vs) /\ Len(rs) >= 1) =>
        /\ pc # "panicked"
        /\ pc = "interpolated" =>
             IF RatLe(query, <<rs[1], 1>>) THEN RatEq(result, <<vs[1], 1>>)
             ELSE IF RatLe(<<rs[Len(rs)], 1>>, query)
                  THEN RatEq(result, <<vs[Len(vs)], 1>>)
             ELSE \E i \in 1..(Len(rs) - 1) :
                     /\ RatLe(<<rs[i], 1>>, query)
                     /\ RatLe(query, <<rs[i + 1], 1>>)
                     /\ result[1] * query[2] * (rs[i + 1] - rs[i]) =
                           result[2]
                           * (vs[i] * query[2] * (rs[i + 1] - rs[i])
                              + (vs[i + 1] - vs[i])
                                * (query[1] - rs[i] * query[2]))
                     /\ \/ /\ RatLe(<<vs[i], 1>>, result)
                           /\ RatLe(result, <<vs[i + 1], 1>>)
                        \/ /\ RatLe(<<vs[i + 1], 1>>, result)
                           /\ RatLe(result, <<vs[i], 1>>)

\* A query strictly between two neighbouring grid points whose values differ.
C9_InteriorQuery ==
    /\ pc = "interpolated"
    /\ Len(rs) = Len(vs)
    /\ \E i \in 1..(Len(rs) - 1) :
          /\ RatLt(<<rs[i], 1>>, query)
          /\ RatLt(query, <<rs[i + 1], 1>>)
          /\ vs[i] # vs[i + 1]
          /\ ~RatEq(result, <<vs[i], 1>>)
          /\ ~RatEq(result, <<vs[i + 1], 1>>)

(***************************************************************************)
(* The tabulated samplers of the web server:                               *)
(* generate_orbital_samples_from_radial, generate_weighted_orbital_samples *)
(* and generate_isotropic_density_samples.  An orbital is the record of    *)
(* its grid, its values and its weight.                                    *)
(***************************************************************************)
FromRadialFactor == 300

FromRadialFloor == 1000

FromRadial == "generate_orbital_samples_from_radial"

Weighted == "generate_weighted_orbital_samples"

Isotropic == "generate_isotropic_density_samples"

TabulatedSamplers == {FromRadial, Weighted, Isotropic}

Orbital(g, v, w) == [radial_r |-> g, radial_val |-> v, weight |-> w]

\* A two-point orbital of positive mass (inside max_radius = 2), one of zero
\* values, one with no grid at all, one with fewer values than grid points.
GoodOrbital(w) == Orbital(<<1, 2>>, <<1, 1>>, w)

ZeroOrbital(w) == Orbital(<<1, 2>>, <<0, 0>>, w)

EmptyOrbital(w) == Orbital(<<>>, <<>>, w)

ShortOrbital(w) == Orbital(<<1, 2>>, <<1>>, w)

\* A three-point orbital that reaches beyond both values of max_radius.
WideOrbital(w) == Orbital(<<1, 2, 3>>, <<1, 1, 1>>, w)

\* The orbital lists the mixture samplers are called with.
OrbitalLists ==
    {<<>>,
     <<GoodOrbital(0)>>,
     <<GoodOrbital(1)>>,
     <<ZeroOrbital(1)>>,
     <<EmptyOrbital(1)>>,
     <<ShortOrbital(1)>>,
     <<WideOrbital(1)>>,
     <<GoodOrbital(1), GoodOrbital(3)>>,
     <<EmptyOrbital(1), GoodOrbital(1)>>,
     <<GoodOrbital(1), GoodOrbital(1), GoodOrbital(1)>>}

\* max_radius for the tabulated samplers: 1 cuts the two-point grid off
\* after its first point, 2 covers it.
TabMaxRadii == {1, 2}

\* The uniform draws of sample_r and of the orbital choice.
TabUDraws == {<<0, 1>>, <<1, 2>>}

\* The direction of a tabulated sample.
TabTheta == [sin |-> 3, cos |-> 4]

TabPhi == [sin |-> 4, cos |-> 3]

RECURSIVE SumWeights(_, _)
\* The sum of the weights of the first k orbitals of list.
SumWeights(list, k) ==
    IF k <= 0 THEN 0 ELSE SumWeights(list, k - 1) + list[k].weight

RECURSIVE SumSeq(_, _)
SumSeq(seq, k) == IF k <= 0 THEN 0 ELSE SumSeq(seq, k - 1) + seq[k]

\* (a / b).round() as usize for b > 0: half away from zero, negatives
\* saturating to 0.
RoundToUsize(a, b) == IF a <= 0 THEN 0 ELSE (2 * a + b) \div (2 * b)

\* let max_attempts = num_samples.saturating_mul(300).max(1000)
FromRadialBudget(n) ==
    IF n * FromRadialFactor >= FromRadialFloor
    THEN n * FromRadialFactor ELSE FromRadialFloor

\* while samples.len() < num_samples && attempts < max_attempts
FromRadialContinues(have, att, n) == have < n /\ att < FromRadialBudget(n)

InitTabulated ==
    /\ IdleMore
    /\ IdleHandler
    /\ IdleQN
    /\ build \in Builds
    /\ pc = "call"
    /\ sampler \in TabulatedSamplers
    /\ num_samples \in 0..MaxSamples
    /\ max_radius \in TabMaxRadii
    /\ attempts = 0
    /\ accepted = 0
    /\ samples = <<>>
    /\ rs = <<>>
    /\ vs = <<>>
    /\ radial_kind \in IF sampler = FromRadial THEN RadialKinds ELSE {"R"}
    /\ cdf = <<>>
    /\ draw_u = <<0, 1>>
    /\ query = <<0, 1>>
    /\ result = <<0, 1>>
    /\ orbitals \in IF sampler = FromRadial
                    THEN {list \in OrbitalLists : Len(list) = 1}
                    ELSE OrbitalLists
    /\ orb_idx = 0
    /\ remaining = 0
    /\ requested = <<>>
    /\ short = FALSE
    /\ sub_count = 0
    /\ part = <<>>
    /\ usable = <<>>
    /\ weight_cdf = <<>>

\* Entry of generate_orbital_samples_from_radial(orb, .., count, ..) up to
\* its loop: the CDF is built first.
EnterFromRadial(orb, count) ==
    LET out == build_radial_cdf(orb.radial_r, orb.radial_val, max_radius,
                                radial_kind)
    IN  /\ rs' = orb.radial_r
        /\ vs' = orb.radial_val
        /\ cdf' = out.val
        /\ attempts' = 0
        /\ part' = <<>>
        /\ sub_count' = count
        /\ pc' = IF out.panic THEN "panicked" ELSE "from_radial"

\* The handler calls generate_orbital_samples_from_radial on one orbital.
FromRadialCall ==
    /\ pc = "call"
    /\ sampler = FromRadial
    /\ EnterFromRadial(orbitals[1], num_samples)
    /\ UNCHANGED <<notSampling, sampler, num_samples, max_radius, accepted,
                   samples, radial_kind, draw_u, query, result, orbitals,
                   orb_idx, remaining, requested, short, usable, weight_cdf>>

\* One iteration of the loop: a radius from sample_r, then the angular
\* acceptance trials, which accept a direction or give the radius up.
FromRadialAttempt ==
    /\ pc = "from_radial"
    /\ FromRadialContinues(Len(part), attempts, sub_count)
    /\ attempts' = attempts + 1
    /\ \E uu \in TabUDraws :
          \E out \in sample_r(build, cdf, rs, uu), accept \in BOOLEAN :
             /\ pc' = IF out.panic THEN "panicked" ELSE pc
             /\ part' = IF ~out.panic /\ accept
                        THEN Append(part, Cartesian(out.val, TabTheta, TabPhi))
                        ELSE part
    /\ UNCHANGED <<notSampling, sampler, num_samples, max_radius, accepted,
                   samples, varsRadial, orbitals, orb_idx, remaining,
                   requested, short, sub_count, usable, weight_cdf>>

\* The loop ends and the call returns its samples, to the handler or to
\* the weighted sampler, which appends them.
FromRadialReturn ==
    /\ pc = "from_radial"
    /\ ~FromRadialContinues(Len(part), attempts, sub_count)
    /\ samples' = samples \o part
    /\ IF sampler = Weighted
       THEN /\ pc' = "weighted_loop"
            /\ orb_idx' = orb_idx + 1
            /\ short' = (short \/ Len(part) < sub_count)
       ELSE /\ pc' = "returned"
            /\ UNCHANGED <<orb_idx, short>>
    /\ UNCHANGED <<notSampling, sampler, num_samples, max_radius, attempts,
                   accepted, varsRadial, orbitals, remaining, requested,
                   sub_count, part, usable, weight_cdf>>

RequestedCount_NoRemainder(n, w, total, idx, len, rem) ==
    Min(RoundToUsize(n * w, total), rem)

\* count = (num_samples * (weight / total_weight)).round(), the last orbital
\* taking what remains, and never more than what remains.
RequestedCount(n, w, total, idx, len, rem) ==
    Min(IF idx = len - 1 THEN rem ELSE RoundToUsize(n * w, total), rem)

\* Entry of generate_weighted_orbital_samples up to its loop.
WeightedCall ==
    /\ pc = "call"
    /\ sampler = Weighted
    /\ IF SumWeights(orbitals, Len(orbitals)) <= 0 \/ Len(orbitals) = 0
       THEN pc' = "returned" /\ UNCHANGED remaining
       ELSE pc' = "weighted_loop" /\ remaining' = num_samples
    /\ UNCHANGED <<notSampling, varsCall, varsRadial, orbitals, orb_idx,
                   requested, short, sub_count, part, usable, weight_cdf>>

\* One iteration of the loop over the orbitals, up to the call of
\* generate_orbital_samples_from_radial (or to `continue` when count is 0).
WeightedStep ==
    /\ pc = "weighted_loop"
    /\ orb_idx < Len(orbitals)
    /\ remaining # 0
    /\ LET orb == orbitals[orb_idx + 1]
           count == RequestedCount(num_samples, orb.weight,
                                   SumWeights(orbitals, Len(orbitals)),
                                   orb_idx, Len(orbitals), remaining)
       IN  /\ remaining' = remaining - count
           /\ requested' = Append(requested, count)
           /\ IF count = 0
              THEN /\ orb_idx' = orb_idx + 1
                   /\ UNCHANGED <<pc, rs, vs, cdf, attempts, part, sub_count>>
              ELSE /\ EnterFromRadial(orb, count)
                   /\ UNCHANGED orb_idx
    /\ UNCHANGED <<notSampling, sampler, num_samples, max_radius, accepted,
                   samples, radial_kind, draw_u, query, result, orbitals,
                   short, usable, weight_cdf>>

\* The loop is over (no orbital left, or remaining == 0): return samples.
WeightedReturn ==
    /\ pc = "weighted_loop"
    /\ orb_idx >= Len(orbitals) \/ remaining = 0
    /\ pc' = "returned"
    /\ UNCHANGED <<notSampling, varsCall, varsRadial, varsTab>>

\* The CDF the isotropic sampler builds for an orbital.
OrbitalCdf(orb) ==
    build_radial_cdf(orb.radial_r, orb.radial_val, max_radius, radial_kind)

\* The orbitals the isotropic sampler keeps: positive weight, CDF not empty.
KeptOrbitals(list) ==
    SelectSeq(list, LAMBDA orb : orb.weight > 0 /\ OrbitalCdf(orb).val # <<>>)

\* Entry of generate_isotropic_density_samples up to its sampling loop.
IsotropicCall ==
    /\ pc = "call"
    /\ sampler = Isotropic
    /\ IF \E k \in DOMAIN orbitals :
             orbitals[k].weight > 0 /\ OrbitalCdf(orbitals[k]).panic
       THEN pc' = "panicked" /\ UNCHANGED <<usable, weight_cdf>>
       ELSE LET kept == KeptOrbitals(orbitals)
                total_weight == SumWeights(kept, Len(kept))
            IN  IF kept = <<>> \/ total_weight <= 0
                THEN pc' = "returned" /\ UNCHANGED <<usable, weight_cdf>>
                ELSE /\ pc' = "isotropic_loop"
                     /\ usable' = [k \in 1..Len(kept) |->
                                      [radial_r |-> kept[k].radial_r,
                                       cdf      |-> OrbitalCdf(kept[k]).val]]
                     /\ weight_cdf' = [k \in 1..Len(kept) |->
                                          <<SumWeights(kept, k), total_weight>>]
    /\ UNCHANGED <<notSampling, varsCall, varsRadial, orbitals, orb_idx,
                   remaining, requested, short, sub_count, part>>

\* One iteration of the sampling loop: choose an orbital by weight, draw
\* its radius, push the sample.
IsotropicDraw ==
    /\ pc = "isotropic_loop"
    /\ Len(samples) < num_samples
    /\ \E u1 \in TabUDraws, uu \in TabUDraws :
          \E o \in BinarySearch(weight_cdf, u1) :
             LET idx == IF o.ok THEN o.i ELSE Min(o.i, Len(weight_cdf) - 1)
                 rs_cdf == At(usable, idx)
             IN  \E out \in sample_r(build, rs_cdf.cdf, rs_cdf.radial_r, uu) :
                    /\ pc' = IF out.panic THEN "panicked" ELSE pc
                    /\ samples' = IF out.panic THEN samples
                                  ELSE Append(samples,
                                         Cartesian(out.val, TabTheta, TabPhi))
    /\ UNCHANGED <<notSampling, sampler, num_samples, max_radius, attempts,
                   accepted, varsRadial, varsTab>>

IsotropicReturn ==
    /\ pc = "isotropic_loop"
    /\ ~(Len(samples) < num_samples)
    /\ pc' = "returned"
    /\ UNCHANGED <<notSampling, varsCall, varsRadial, varsTab>>

NextTabulated ==
    \/ FromRadialCall
    \/ FromRadialAttempt
    \/ FromRadialReturn
    \/ WeightedCall
    \/ WeightedStep
    \/ WeightedReturn
    \/ IsotropicCall
    \/ IsotropicDraw
    \/ IsotropicReturn

SpecTabulated == InitTabulated /\ [][NextTabulated]_vars

\* Tabulated data with no grid, or with zero mass inside max_radius.
Degenerate(orb) ==
    \/ Len(orb.radial_r) = 0
    \/ /\ Len(orb.radial_val) >= Len(orb.radial_r)
       /\ Total2(orb.radial_r, orb.radial_val, max_radius, radial_kind,
                 Len(orb.radial_r) - 1) = 0

TotalWeight == SumWeights(orbitals, Len(orbitals))

(***************************************************************************)
(* C6.  Called on degenerate tabulated data (every orbital has an empty    *)
(* grid or zero total mass inside max_radius),                             *)
(* generate_orbital_samples_from_radial and                                *)
(* generate_isotropic_density_samples return, and return zero samples.     *)
(* The claim as stated; the code violates it: it samples a zero-mass grid  *)
(* and panics on an empty one.                                             *)
(***************************************************************************)
C6_DegenerateYieldsNoSamples ==
    (/\ sampler \in {FromRadial, Isotropic}
     /\ \A k \in DOMAIN orbitals : Degenerate(orbitals[k]))
    => /\ pc # "panicked"
       /\ pc = "returned" => samples = <<>>

\* The counts the weighted sampler has asked for so far are the rounded
\* shares, capped by what remained, the last orbital taking what remained.
RequestedAsRounded ==
    \A k \in DOMAIN requested :
        LET rem == num_samples - SumSeq(requested, k - 1)
            share == (2 * num_samples * orbitals[k].weight + TotalWeight)
                     \div (2 * TotalWeight)
        IN  requested[k] =
               IF k = Len(orbitals) \/ share > rem THEN rem ELSE share

(***************************************************************************)
(* C10 as stated.  Whenever the orbital list is non-empty and the weights  *)
(* sum to more than 0, the weighted and the isotropic sampler return       *)
(* exactly num_samples samples, the weighted one having asked each orbital *)
(* for its rounded share capped by what remained, the last orbital for the *)
(* remainder.                                                              *)
(***************************************************************************)
C10_ExactlyNumSamples ==
    (/\ sampler \in {Weighted, Isotropic}
     /\ pc = "returned"
     /\ Len(orbitals) > 0
     /\ TotalWeight > 0)
    => /\ Len(samples) = num_samples
       /\ RequestedAsRounded

(***************************************************************************)
(* C10 amended.  With a non-empty orbital list whose weights sum to more   *)
(* than 0: the weighted sampler asks each orbital for its rounded share    *)
(* capped by what remains, the last orbital for the remainder, so that the *)
(* counts asked for sum to num_samples when it returns; it returns at most *)
(* num_samples samples, and exactly num_samples when every per-orbital     *)
(* call returned its full count.  The isotropic sampler, when it returns,  *)
(* returns exactly num_samples samples if some orbital of positive weight  *)
(* has a non-empty grid, and none otherwise.                               *)
(***************************************************************************)
C10_MixtureCounts ==
    (Len(orbitals) > 0 /\ TotalWeight > 0) =>
        /\ sampler = Weighted =>
              /\ RequestedAsRounded
              /\ Len(samples) <= num_samples
              /\ pc = "returned" =>
                    /\ SumSeq(requested, Len(requested)) = num_samples
                    /\ ~short => Len(samples) = num_samples
        /\ (sampler = Isotropic /\ pc = "returned") =>
              Len(samples) =
                 IF \E k \in DOMAIN orbitals :
                       /\ orbitals[k].weight > 0
                       /\ Len(orbitals[k].radial_r) > 0
                 THEN num_samples ELSE 0

\* The weighted sampler returns fewer than num_samples samples after asking
\* two orbitals, one of which ran out of attempts.
C10_WeightedShortfall ==
    /\ sampler = Weighted
    /\ pc = "returned"
    /\ TotalWeight > 0
    /\ Len(requested) = 2
    /\ short
    /\ 0 < Len(samples)
    /\ Len(samples) < num_samples

(***************************************************************************)
(* The /samples handler of the web server: it consults the LDA dataset,    *)
(* the PSlibrary dataset and the hydrogenic model in turn and ends with a  *)
(* response.  What a dataset holds for the request comes from the          *)
(* environment; a sampler the handler calls returns some number of         *)
(* samples up to count (none when it panics inside spawn_blocking).        *)
(***************************************************************************)
ViewModes == {"total", "valence", "orbital", "superposition"}

\* z after clamp(1, 118): hydrogen and another element.
HandlerZs == {1, 3}

\* n after max(1); l as given.
HandlerNs == {1, 2}

HandlerLs == {0, 1, 2}

\* <<n2, l2, m2>>: a valid triple, one with l2 >= n2, one with m2 = i32::MIN.
SecondTriples == {<<1, 0, 0>>, <<1, 1, 0>>, <<2, 1, I32Min>>}

\* count after clamp(1_000, 500_000): the two bounds.
HandlerCounts == {1000, 500000}

DatasetStates == {"unavailable", "no_orbital", "found"}

\* The sizes of the sample list a sampler called for count samples returns.
ReturnedSizes(count) == {0, 1, count}

\* color_mode of the request: absent or another word, "phase", "intensity".
ColorModes == {"none", "phase", "intensity"}

\* How many of size returned samples lie at the nucleus (r <= 1e-8), where
\* the channel helpers push a default entry and continue.
OriginCounts(size) == {k \in {0, 1} : k <= size}

ChannelLen_SkipOrigin(size, origin) == size - origin

\* The length of what a *_from_*_samples helper returns for size samples:
\* one push per sample, in the branch for the nucleus and in the other.
ChannelLen(size, origin) == origin + (size - origin)

\* The psi lists a superposition sampler returns next to size samples.
PsiLen(want_psi, size) == IF want_psi THEN size ELSE 0

\* The channels of a total or valence response: signs is vec![1; sign_count]
\* with sign_count = samples.len().
DensityChannels(bubble, size) ==
    [signs |-> IF bubble THEN Some(size) ELSE None,
     phases |-> None, intensities |-> None, psi1 |-> None, psi2 |-> None]

\* The channels of a single-orbital response.
OrbitalChannels(bubble, color, size, origin) ==
    [signs |-> IF bubble THEN Some(ChannelLen(size, origin)) ELSE None,
     phases |-> IF color = "phase" THEN Some(ChannelLen(size, origin))
                ELSE None,
     intensities |-> IF color = "intensity"
                     THEN Some(ChannelLen(size, origin)) ELSE None,
     psi1 |-> None, psi2 |-> None]

\* The channels of a superposition response.
SuperChannels(bubble, color, want_super_psi, size, origin) ==
    [signs |-> IF bubble THEN Some(ChannelLen(size, origin)) ELSE None,
     phases |-> IF color = "phase" THEN Some(ChannelLen(size, origin))
                ELSE None,
     intensities |-> IF color = "intensity"
                     THEN Some(ChannelLen(size, origin)) ELSE None,
     psi1 |-> IF want_super_psi THEN Some(PsiLen(want_super_psi, size))
              ELSE None,
     psi2 |-> IF want_super_psi THEN Some(PsiLen(want_super_psi, size))
              ELSE None]

ChannelsOf(view, bubble, color, animated, size, origin) ==
    IF view \in {"total", "valence"} THEN DensityChannels(bubble, size)
    ELSE IF view = "orbital"
    THEN OrbitalChannels(bubble, color, size, origin)
    ELSE SuperChannels(bubble, color, animated /\ mode = "superposition",
                       size, origin)

Respond(source, view, count, size, channels) ==
    [source |-> source, mode |-> view, count |-> count, samples |-> size,
     channels |-> channels]

InitHandler ==
    /\ IdleMore
    /\ IdleRadial
    /\ IdleTab
    /\ build \in Builds
    /\ pc = "request"
    /\ arg_n \in HandlerNs
    /\ arg_l \in HandlerLs
    /\ arg_m \in MValues
    /\ qn = None
    /\ fact = <<>>
    /\ todo = <<>>
    /\ prod = NoProduct
    /\ sampler = "none"
    /\ num_samples \in HandlerCounts
    /\ max_radius \in MaxRadii
    /\ attempts = 0
    /\ accepted = 0
    /\ samples = <<>>
    /\ mode \in ViewModes
    /\ z \in HandlerZs
    /\ second \in SecondTriples
    /\ lda \in DatasetStates
    /\ pslib \in DatasetStates
    /\ stage = "none"
    /\ response = NoResponse
    /\ calls = <<>>

\* The handler returns Json(out) after calling the sampler routine.
ReturnSamples(source, view, routine) ==
    /\ pc' = "responded"
    /\ calls' = Append(calls, routine)
    /\ \E size \in ReturnedSizes(num_samples), bubble \in BOOLEAN,
          color \in ColorModes, animated \in BOOLEAN :
          \E origin \in OriginCounts(size) :
             response' = Respond(source, view, num_samples, size,
                                 ChannelsOf(view, bubble, color, animated,
                                            size, origin))

\* The handler returns a response without samples, no sampler called.
ReturnEmpty(source, view) ==
    /\ pc' = "responded"
    /\ response' = Respond(source, view, 0, 0, NoChannels)
    /\ UNCHANGED calls

FallThrough(next) ==
    /\ pc' = next
    /\ UNCHANGED <<response, calls>>

\* The LDA dataset, skipped for hydrogen in the orbital and superposition
\* modes.
LdaStage ==
    /\ pc = "request"
    /\ stage' = "openmx_lda"
    /\ IF ~(z = 1 /\ mode \in {"orbital", "superposition"}) /\ lda = "found"
       THEN ReturnSamples("openmx_lda", mode, "lda")
       ELSE FallThrough("after_lda")
    /\ UNCHANGED <<build, varsQN, varsCall, varsRadial, varsTab, varsMore,
                   mode, z,
                   second, lda, pslib>>

\* The PSlibrary dataset, consulted in the orbital mode for z != 1.
PslibraryStage ==
    /\ pc = "after_lda"
    /\ stage' = "pslibrary"
    /\ IF mode = "orbital" /\ z # 1 /\ pslib # "unavailable"
       THEN IF pslib = "found"
            THEN ReturnSamples("pslibrary", "orbital", FromRadial)
            ELSE ReturnEmpty("pslibrary", "orbital")
       ELSE FallThrough("after_pslibrary")
    /\ UNCHANGED <<build, varsQN, varsCall, varsRadial, varsTab, varsMore,
                   mode, z,
                   second, lda, pslib>>

\* The hydrogenic superposition: both quantum-number triples are validated
\* before either result is looked at.
SuperpositionStage ==
    /\ pc = "after_pslibrary"
    /\ stage' = "hydrogenic"
    /\ IF mode = "superposition"
       THEN LET qn_a == QuantumNumbers_new(build, arg_n, arg_l, arg_m)
                qn_b == QuantumNumbers_new(build, second[1], second[2],
                                           second[3])
            IN  IF qn_a = Panic \/ qn_b = Panic
                THEN pc' = "panicked" /\ UNCHANGED <<response, calls>>
                ELSE IF qn_a # None /\ qn_b # None
                THEN ReturnSamples("hydrogenic", "superposition",
                                   "generate_superposition_samples_hydrogenic")
                ELSE FallThrough("single_orbital")
       ELSE FallThrough("single_orbital")
    /\ UNCHANGED <<build, varsQN, varsCall, varsRadial, varsTab, varsMore,
                   mode, z,
                   second, lda, pslib>>

\* The hydrogenic single orbital: validation, then the analytic sampler.
SingleOrbitalStage ==
    /\ pc = "single_orbital"
    /\ qn' = QuantumNumbers_new(build, arg_n, arg_l, arg_m)
    /\ IF qn' = Panic
       THEN pc' = "panicked" /\ UNCHANGED <<response, calls>>
       ELSE IF qn' = None
       THEN ReturnEmpty("hydrogenic", "orbital")
       ELSE \E routine \in AnalyticSamplers :
               ReturnSamples("hydrogenic", "orbital", routine)
    /\ UNCHANGED <<build, arg_n, arg_l, arg_m, fact, todo, prod, varsCall,
                   varsRadial, varsTab, varsMore, mode, z, second, lda,
                   pslib, stage>>

NextHandler ==
    \/ LdaStage
    \/ PslibraryStage
    \/ SuperpositionStage
    \/ SingleOrbitalStage

SpecHandler == InitHandler /\ [][NextHandler]_vars

(***************************************************************************)
(* C2.  Whenever the (n, l, m) that reach the hydrogenic path fail         *)
(* validation, the handler ends with a normal response that has zero       *)
(* samples and count 0, and it has called no sampler routine.  The claim   *)
(* as stated; the code violates it at m = i32::MIN.                        *)
(***************************************************************************)
C2_InvalidYieldsEmptyResponse ==
    (/\ stage = "hydrogenic"
     /\ pc \in {"responded", "panicked"}
     /\ ~ValidQN(arg_n, arg_l, arg_m))
    => /\ pc = "responded"
       /\ response.count = 0
       /\ response.samples = 0
       /\ calls = <<>>

(***************************************************************************)
(* The superposition samplers generate_superposition_samples_lda and       *)
(* generate_superposition_samples_hydrogenic.  Both run the same loop; the *)
(* first reads the two radial tables from its orbitals, the second         *)
(* tabulates radial_wavefunction on build_radial_grid, which starts at     *)
(* r = 0.  Angles are measured in quarter turns, so that the phase         *)
(* (cos, -sin) of delta_e * time is exact, and mix is 9/25, so that        *)
(* a = sqrt(mix) = 3/5 and b = sqrt(1 - mix) = 4/5.                        *)
(***************************************************************************)
SuperLda == "generate_superposition_samples_lda"

SuperHydrogenic == "generate_superposition_samples_hydrogenic"

SuperSamplers == {SuperLda, SuperHydrogenic}

SuperFactor == 200

\* Radial tables on the grid 0, 1, 2: one that is positive at the origin
\* (l = 0) and one that vanishes there (l > 0).
SOrbital == Orbital(<<0, 1, 2>>, <<1, 1, 0>>, 1)

POrbital == Orbital(<<0, 1, 2>>, <<0, 1, 1>>, 1)

\* The pairs the hydrogenic sampler tabulates on its own grid.
GridPairs == {<<SOrbital, POrbital>>, <<POrbital, POrbital>>}

\* The pairs (orb_a, orb_b) of the LDA sampler: tables of any grid, an
\* empty table included.
LdaPairs ==
    GridPairs \cup {<<GoodOrbital(1), SOrbital>>,
                    <<EmptyOrbital(1), GoodOrbital(1)>>}

\* The values of num_samples.
SuperCounts == {0, 1}

\* The values of delta_e, for time = 1.
DeltaEs == {0, 1}

\* The values of a harmonic at the sampled direction.
Complex(re, im) == [re |-> re, im |-> im]

\* (cos x, sin x) for x quarter turns.
CosSin(x) ==
    CASE x % 4 = 0 -> [cos |-> 1, sin |-> 0]
      [] x % 4 = 1 -> [cos |-> 0, sin |-> 1]
      [] x % 4 = 2 -> [cos |-> -1, sin |-> 0]
      [] x % 4 = 3 -> [cos |-> 0, sin |-> -1]

Phase_OfTimeAlone(de, t) == Complex(CosSin(t).cos, -CosSin(t).sin)

\* phase_re = (delta_e * time).cos(); phase_im = -(delta_e * time).sin()
Phase(de, t) == Complex(CosSin(de * t).cos, -CosSin(de * t).sin)

\* The amplitudes of one proposal, all over the denominator den:
\* psi1 = a * r1 * y1, psi2_base = b * r2 * y2, psi2 = b * r2 * (y2 * phase).
Amplitudes(r1, r2, y1, y2, phase) ==
    LET y2p == Complex(y2.re * phase.re - y2.im * phase.im,
                       y2.re * phase.im + y2.im * phase.re)
    IN  [psi1      |-> Complex(3 * r1[1] * r2[2] * y1.re,
                               3 * r1[1] * r2[2] * y1.im),
         psi2_base |-> Complex(4 * r2[1] * r1[2] * y2.re,
                               4 * r2[1] * r1[2] * y2.im),
         psi2      |-> Complex(4 * r2[1] * r1[2] * y2p.re,
                               4 * r2[1] * r1[2] * y2p.im),
         den       |-> 5 * r1[2] * r2[2]]

NormSqC(c) == c.re * c.re + c.im * c.im

\* prob = |psi1 + psi2|^2, over den^2.
Prob(amp) ==
    NormSqC(Complex(amp.psi1.re + amp.psi2.re, amp.psi1.im + amp.psi2.im))

\* proposal = mix * psi1_sq + (1 - mix) * psi2_sq, over den^2.
Proposal(amp) == NormSqC(amp.psi1) + NormSqC(amp.psi2_base)

\* (prob / (2.0 * proposal)).clamp(0.0, 1.0), for proposal > 0.
Accept(amp) ==
    IF Prob(amp) >= 2 * Proposal(amp) THEN <<1, 1>>
    ELSE <<Prob(amp), 2 * Proposal(amp)>>

Pushes_DrawsAlways(wp, amp, draw_below) ==
    \/ draw_below /\ Accept(amp)[1] > 0
    \/ Accept(amp) = <<1, 1>>

\* if with_psi || rng.gen::<f32>() < accept, where draw_below says that the
\* draw is below accept (it cannot be when accept is 0, it is when accept
\* is 1).
Pushes(wp, amp, draw_below) ==
    \/ wp
    \/ draw_below /\ Accept(amp)[1] > 0
    \/ Accept(amp) = <<1, 1>>

EmittedPair_Rotated(amp) ==
    [psi1 |-> <<amp.psi1, amp.den>>, psi2 |-> <<amp.psi2, amp.den>>]

\* psi1.push([psi1_re, psi1_im]); psi2.push([psi2_base_re, psi2_base_im])
EmittedPair(amp) ==
    [psi1 |-> <<amp.psi1, amp.den>>, psi2 |-> <<amp.psi2_base, amp.den>>]

Divisor_NoSkip(wp, amp) ==
    IF ~wp
    THEN Some(<<2 * Proposal(amp), amp.den * amp.den>>)
    ELSE None

\* The divisor 2.0 * proposal of `prob / (2.0 * proposal)`: the division is
\* reached only past `if proposal <= 0.0 { continue; }` and only without
\* with_psi.
Divisor(wp, amp) ==
    IF Proposal(amp) > 0 /\ ~wp
    THEN Some(<<2 * Proposal(amp), amp.den * amp.den>>)
    ELSE None

\* let max_attempts = num_samples.saturating_mul(200)
SuperBudget(n) == n * SuperFactor

\* while samples.len() < num_samples && attempts < max_attempts
SuperContinues(have, att, n) == have < n /\ att < SuperBudget(n)

\* Past the early return both CDFs are non-empty, so that nothing in the
\* loop depends on the overflow checks: one build is enough.
InitSuper ==
    /\ IdleTrials
    /\ IdleEnvelope
    /\ IdlePure
    /\ IdleViewer
    /\ IdleCache
    /\ IdleHandler
    /\ IdleQN
    /\ IdleEnergy
    /\ IdleRecon
    /\ build = "release"
    /\ pc = "call"
    /\ sampler \in SuperSamplers
    /\ num_samples \in SuperCounts
    /\ max_radius = 2
    /\ attempts = 0
    /\ accepted = 0
    /\ samples = <<>>
    /\ orbitals \in (IF sampler = SuperLda THEN LdaPairs ELSE GridPairs)
    /\ with_psi \in BOOLEAN
    /\ delta_e \in DeltaEs
    /\ time = 1
    /\ cdf_a = <<>>
    /\ cdf_b = <<>>
    /\ pick_a = FALSE
    /\ spin = FALSE
    /\ proposal = <<0, 1>>
    /\ psi1 = <<>>
    /\ psi2 = <<>>
    /\ divisor = [tag |-> "None"]
    /\ rs = <<>>
    /\ vs = <<>>
    /\ radial_kind = "R"
    /\ cdf = <<>>
    /\ draw_u = <<0, 1>>
    /\ query = <<0, 1>>
    /\ result = <<0, 1>>
    /\ orb_idx = 0
    /\ remaining = 0
    /\ requested = <<>>
    /\ short = FALSE
    /\ sub_count = 0
    /\ part = <<>>
    /\ usable = <<>>
    /\ weight_cdf = <<>>

\* What the superposition samplers never touch.
notSuper ==
    <<build, varsQN, varsHandler, varsEnergy, varsRecon, varsCache,
      varsEnvelope, varsPure, app_state, trials,
      sampler, num_samples, max_radius, accepted,
      rs, vs, radial_kind, cdf, query, orbitals, orb_idx, remaining,
      requested, short, sub_count, part, usable, weight_cdf, with_psi,
      delta_e, time>>

\* The call up to its loop: the two CDFs, and the early return when either
\* is empty.
SuperCall ==
    /\ pc = "call"
    /\ sampler \in SuperSamplers
    /\ LET out_a == build_radial_cdf(orbitals[1].radial_r,
                                     orbitals[1].radial_val, max_radius, "R")
           out_b == build_radial_cdf(orbitals[2].radial_r,
                                     orbitals[2].radial_val, max_radius, "R")
       IN  /\ cdf_a' = out_a.val
           /\ cdf_b' = out_b.val
           /\ pc' = IF out_a.panic \/ out_b.panic THEN "panicked"
                    ELSE IF out_a.val = <<>> \/ out_b.val = <<>>
                    THEN "returned"
                    ELSE "super_loop"
    /\ UNCHANGED <<notSuper, attempts, samples, draw_u, result, pick_a, spin,
                   proposal, psi1, psi2, divisor>>

\* The head of one iteration: attempts += 1, the choice of the orbital and
\* the radius from its CDF; the angular loop comes next.
SuperDraw ==
    /\ pc = "super_loop"
    /\ SuperContinues(Len(samples), attempts, num_samples)
    /\ attempts' = attempts + 1
    /\ \E pick \in BOOLEAN, uu \in TabUDraws :
          \E out \in sample_r(build,
                              IF pick THEN cdf_a ELSE cdf_b,
                              (IF pick THEN orbitals[1]
                               ELSE orbitals[2]).radial_r,
                              uu) :
             /\ pick_a' = pick
             /\ result' = out.val
             /\ pc' = IF out.panic THEN "panicked" ELSE "theta"
    /\ UNCHANGED <<notSuper, samples, draw_u, cdf_a, cdf_b, spin, proposal,
                   psi1, psi2, divisor>>

\* One trial of `let theta = loop { .. }` whose draw is not below
\* ang * ang / max_ang: the loop goes round again.  Nothing counts the
\* trials.
SuperThetaReject ==
    /\ pc = "theta"
    /\ spin' = ~spin
    /\ UNCHANGED <<notSuper, pc, attempts, samples, draw_u, result, cdf_a,
                   cdf_b, pick_a, proposal, psi1, psi2, divisor>>

\* The trial that breaks out of the angular loop, and the rest of the
\* iteration: the amplitudes at the point, the skip of a proposal of no
\* density, then the push (always with with_psi, else when the draw is
\* below accept).  The harmonic of the picked orbital is not zero at the
\* accepted direction; the other one may be.  The locals of the iteration
\* end with it.
SuperThetaAccept ==
    /\ pc = "theta"
    /\ \E other \in {0, 1} :
          \E o1 \in interp_radial(result, orbitals[1].radial_r,
                                  orbitals[1].radial_val),
             o2 \in interp_radial(result, orbitals[2].radial_r,
                                  orbitals[2].radial_val),
             draw_below \in BOOLEAN :
             LET y1  == Complex(IF pick_a THEN 1 ELSE other, 0)
                 y2  == Complex(IF pick_a THEN other ELSE 1, 0)
                 amp == Amplitudes(o1.val, o2.val, y1, y2,
                                   Phase(delta_e, time))
                 push == Proposal(amp) > 0 /\ Pushes(with_psi, amp, draw_below)
             IN  /\ pc' = IF o1.panic \/ o2.panic THEN "panicked"
                          ELSE "super_loop"
                 /\ proposal' = <<Proposal(amp), amp.den * amp.den>>
                 /\ divisor' = IF o1.panic \/ o2.panic THEN None
                               ELSE Divisor(with_psi, amp)
                 /\ samples' = IF ~(o1.panic \/ o2.panic) /\ push
                               THEN Append(samples,
                                           Cartesian(result, TabTheta, TabPhi))
                               ELSE samples
                 /\ psi1' = IF ~(o1.panic \/ o2.panic) /\ push /\ with_psi
                            THEN Append(psi1, EmittedPair(amp).psi1)
                            ELSE psi1
                 /\ psi2' = IF ~(o1.panic \/ o2.panic) /\ push /\ with_psi
                            THEN Append(psi2, EmittedPair(amp).psi2)
                            ELSE psi2
    /\ pick_a' = FALSE
    /\ result' = <<0, 1>>
    /\ spin' = FALSE
    /\ UNCHANGED <<notSuper, attempts, draw_u, cdf_a, cdf_b>>

\* The loop ends and the call returns (samples, psi1, psi2).
SuperReturn ==
    /\ pc = "super_loop"
    /\ ~SuperContinues(Len(samples), attempts, num_samples)
    /\ pc' = "returned"
    /\ UNCHANGED <<notSuper, attempts, samples, draw_u, result, cdf_a, cdf_b,
                   pick_a, spin, proposal, psi1, psi2, divisor>>

NextSuper ==
    \/ SuperCall
    \/ SuperDraw
    \/ SuperThetaReject
    \/ SuperThetaAccept
    \/ SuperReturn

\* The thread of the call keeps running: some step is always taken while
\* one is possible.
SpecSuper == InitSuper /\ [][NextSuper]_vars /\ WF_vars(NextSuper)

(***************************************************************************)
(* C11 as stated.  In amplitude mode (with_psi) every proposal drawn in    *)
(* the loop appends one sample and one (psi1, psi2) pair: between          *)
(* iterations, the samples, psi1 and psi2 each hold as many entries as     *)
(* there have been attempts.  The code skips a proposal of no density in   *)
(* amplitude mode too.                                                     *)
(***************************************************************************)
C11_EveryProposalEmitted ==
    (with_psi /\ pc \in {"super_loop", "returned"})
    => /\ Len(samples) = attempts
       /\ Len(psi1) = attempts
       /\ Len(psi2) = attempts

(***************************************************************************)
(* C11.  In amplitude mode (with_psi) no acceptance draw is made: an       *)
(* iteration whose proposal has a positive mixture density appends exactly *)
(* one sample, one psi1 and one psi2 entry, and an iteration whose         *)
(* proposal has no density appends nothing.                                *)
(***************************************************************************)
C11_PositiveProposalsEmitted ==
    [][(with_psi /\ pc = "theta" /\ pc' = "super_loop")
       => IF proposal'[1] > 0
          THEN /\ Len(samples') = Len(samples) + 1
               /\ Len(psi1') = Len(psi1) + 1
               /\ Len(psi2') = Len(psi2) + 1
          ELSE /\ samples' = samples
               /\ psi1' = psi1
               /\ psi2' = psi2]_vars

\* In amplitude mode an iteration has come to a proposal of no density and
\* left the lists as they were.
C11_ZeroDensitySkipped ==
    /\ with_psi
    /\ pc = "super_loop"
    /\ attempts >= 1
    /\ proposal[1] = 0
    /\ Len(samples) < attempts

(***************************************************************************)
(* C17.  Every call of the superposition samplers returns, after at most   *)
(* num_samples * 200 attempts and with at most num_samples samples.  The   *)
(* claim as stated; the angular loop of an attempt has no bound.           *)
(***************************************************************************)
C17_SuperTerminates ==
    /\ [](/\ attempts <= num_samples * SuperFactor
          /\ Len(samples) <= num_samples)
    /\ <>(pc \in {"returned", "panicked"})

(***************************************************************************)
(* The energy difference of the hydrogenic superposition: the handler      *)
(* validates both triples, then takes the two level energies and their     *)
(* difference.  Energies are exact rationals <<numerator, denominator>>.   *)
(***************************************************************************)
RatSub(x, y) == <<x[1] * y[2] - y[1] * x[2], x[2] * y[2]>>

hydrogenic_energy_NoSquare(n) == <<-1, 2 * n>>

\* -0.5 / (n_f * n_f)
hydrogenic_energy(n) == <<-1, 2 * n * n>>

\* l and l2 of the request: 0 is valid for every n, MaxN for none.
EnergyLs == {0, MaxN}

InitEnergy ==
    /\ IdleTrials
    /\ IdleEnvelope
    /\ IdlePure
    /\ IdleViewer
    /\ IdleCache
    /\ IdleCall
    /\ IdleRadial
    /\ IdleTab
    /\ IdleSuper
    /\ IdleRecon
    /\ build \in Builds
    /\ pc = "after_pslibrary"
    /\ arg_n \in 1 .. MaxN
    /\ arg_l \in EnergyLs
    /\ arg_m = 0
    /\ qn = None
    /\ fact = <<>>
    /\ todo = <<>>
    /\ prod = NoProduct
    /\ mode = "superposition"
    /\ z = 1
    /\ second \in {<<n2, l2, 0>> : n2 \in 1 .. MaxN, l2 \in EnergyLs}
    /\ lda = "unavailable"
    /\ pslib = "unavailable"
    /\ stage = "pslibrary"
    /\ response = NoResponse
    /\ calls = <<>>
    /\ e1 = None
    /\ e2 = None
    /\ handler_delta_e = None

\* if let (Some(q1), Some(q2)) = (qn_a, qn_b): e1, e2 and delta_e = e2 - e1,
\* with which the sampler is called.
SuperpositionEnergy ==
    /\ pc = "after_pslibrary"
    /\ mode = "superposition"
    /\ LET qn_a == QuantumNumbers_new(build, arg_n, arg_l, arg_m)
           qn_b == QuantumNumbers_new(build, second[1], second[2], second[3])
       IN  /\ qn_a \notin {None, Panic}
           /\ qn_b \notin {None, Panic}
           /\ e1' = Some(hydrogenic_energy(qn_a.val.n))
           /\ e2' = Some(hydrogenic_energy(qn_b.val.n))
           /\ handler_delta_e' = Some(RatSub(hydrogenic_energy(qn_b.val.n),
                                             hydrogenic_energy(qn_a.val.n)))
    /\ stage' = "hydrogenic"
    /\ pc' = "energy_done"
    /\ UNCHANGED <<build, varsQN, varsCall, varsRadial, varsTab, varsSuper,
                   varsRecon, varsCache, varsEnvelope, varsPure, app_state,
                   trials, mode, z, second, lda,
                   pslib, response, calls>>

\* Either triple fails validation: no energy is computed and the handler
\* goes on to the single orbital.
SuperpositionInvalid ==
    /\ pc = "after_pslibrary"
    /\ mode = "superposition"
    /\ \/ QuantumNumbers_new(build, arg_n, arg_l, arg_m) = None
       \/ QuantumNumbers_new(build, second[1], second[2], second[3]) = None
    /\ stage' = "hydrogenic"
    /\ pc' = "single_orbital"
    /\ UNCHANGED <<build, varsQN, varsCall, varsRadial, varsTab, varsMore,
                   mode, z, second, lda, pslib, response, calls>>

NextEnergy ==
    \/ SuperpositionEnergy
    \/ SuperpositionInvalid

SpecEnergy == InitEnergy /\ [][NextEnergy]_vars

(***************************************************************************)
(* C12.  The delta_e the handler computes for the hydrogenic superposition *)
(* is E(n2) - E(n1) with E(n) = -0.5 / n^2, that is                        *)
(* (n2^2 - n1^2) / (2 n1^2 n2^2): exactly 0 when n1 = n2, and 0.375 = 3/8  *)
(* for n1 = 1, n2 = 2.                                                     *)
(***************************************************************************)
C12_DeltaE ==
    pc = "energy_done"
    => LET d  == handler_delta_e.val
           n1 == arg_n
           n2 == second[1]
       IN  /\ d[2] # 0
           /\ d[1] * (2 * n1 * n1 * n2 * n2) = d[2] * (n2 * n2 - n1 * n1)
           /\ n1 = n2 => d[1] = 0
           /\ (n1 = 1 /\ n2 = 2) => 8 * d[1] = 3 * d[2]

\* The levels n1 = 1, n2 = 2 have been through the handler.
C12_GroundToFirstExcited ==
    /\ pc = "energy_done"
    /\ arg_n = 1
    /\ second[1] = 2
    /\ handler_delta_e # None

(***************************************************************************)
(* The point-wise reconstructors: signs_, phases_ and intensities_ from    *)
(* _radial_samples (a tabulated orbital), _hydrogenic_samples (an analytic *)
(* orbital) and _superposition_hydrogenic / _superposition_lda (two        *)
(* orbitals).  Each walks the points in order and pushes one value per     *)
(* point.  A point is [x, y, z, den]; its radius is exact because the      *)
(* points are built on Pythagorean directions.  Amplitudes are counted in  *)
(* units of 1e-13, so that values on both sides of the floor 1e-12 of      *)
(* phase_from_components are at hand.  Harmonics of l = 0 and l = 1 are    *)
(* taken up to their positive normalisation constant: 1, x/r, z/r and, in  *)
(* the complex basis for m = 1, -(x + iy)/r.  The analytic radial function *)
(* is the piecewise-linear one through the orbital's table.                *)
(***************************************************************************)
MaxCalls == 2   \* reconstructor calls made on one list of points

\* r <= 1e-8
OriginRadius == <<1, 100000000>>

\* re.abs() + im.abs() < 1e-12, in units of 1e-13
PhaseFloor == <<10, 1>>

Origin == [x |-> 0, y |-> 0, z |-> 0, den |-> 1]

\* Points at r = 1 off the axes, at r = 3/2 on the negative x axis and at
\* r = 2 on the negative z axis.
ReconPoints ==
    {Origin,
     Cartesian(<<1, 1>>, TabTheta, TabPhi),
     [x |-> -3, y |-> 0, z |-> 0, den |-> 2],
     [x |-> 0, y |-> 0, z |-> -2, den |-> 1]}

RECURSIVE PointLists(_)
\* The lists of at most k points.
PointLists(k) ==
    IF k = 0 THEN {<<>>}
    ELSE PointLists(k - 1)
         \cup {Append(list, p) : list \in PointLists(k - 1), p \in ReconPoints}

Desc(g, v, kind, harmonic) ==
    [radial_r |-> g, radial_val |-> v, kind |-> kind, harmonic |-> harmonic]

\* An s orbital whose tail is negative and below the floor, a p_x orbital
\* stored as chi = r * R, and a complex p orbital with m = 1.
TailDesc == Desc(<<1, 2>>, <<20, -5>>, "R", "s")

ChiDesc == Desc(<<1, 2>>, <<20, 40>>, "Chi", "px")

ComplexDesc == Desc(<<1, 2>>, <<-30, 20>>, "R", "p+")

\* The orbital of a single-orbital call, the pair of a superposition call.
ReconDescs ==
    [radial        |-> {<<TailDesc>>, <<ChiDesc>>, <<ComplexDesc>>},
     hydrogenic    |-> {<<TailDesc>>, <<ComplexDesc>>},
     superposition |-> {<<TailDesc, ComplexDesc>>, <<ChiDesc, TailDesc>>}]

ReconFamilies == DOMAIN ReconDescs

ReconTimes == {0, 1}

Abs(v) == IF v >= 0 THEN v ELSE -v

RECURSIVE Gcd(_, _)
Gcd(m, n) == IF n = 0 THEN m ELSE Gcd(n, m % n)

\* The numerator of (x * x + y * y + z * z).sqrt().
RadiusNum(p) == CHOOSE k \in 0 .. NormSq(p) : k * k = NormSq(p)

\* r, in lowest terms.
RadiusOf(p) ==
    <<RadiusNum(p) \div Gcd(RadiusNum(p), p.den),
      p.den \div Gcd(RadiusNum(p), p.den)>>

AtOrigin(p) == RatLe(RadiusOf(p), OriginRadius)

\* spherical_harmonic_basis at the direction of p, over the denominator den.
Harmonic(h, p) ==
    CASE h = "s"  -> [re |-> RadiusNum(p), im |-> 0, den |-> RadiusNum(p)]
      [] h = "px" -> [re |-> p.x, im |-> 0, den |-> RadiusNum(p)]
      [] h = "pz" -> [re |-> p.z, im |-> 0, den |-> RadiusNum(p)]
      [] h = "p+" -> [re |-> -p.x, im |-> -p.y, den |-> RadiusNum(p)]

\* interp_radial(r, radial_r, radial_val); the tables here have a value for
\* every grid point, so that it returns.
RadialAt(d, p) ==
    (CHOOSE o \in interp_radial(RadiusOf(p), d.radial_r, d.radial_val) :
        TRUE).val

RadialOf_NeverDivides(fam, d, p) == RadialAt(d, p)

\* if matches!(radial_kind, RadialKind::Chi) && r > 1e-8 { radial /= r; }
RadialOf(fam, d, p) ==
    LET v == RadialAt(d, p)
        r == RadiusOf(p)
    IN  IF fam = "radial" /\ d.kind = "Chi"
        THEN <<v[1] * r[2], v[2] * r[1]>>
        ELSE v

\* psi at p for one orbital: radial * y, over den.
PsiSingle(fam, d, p) ==
    LET radial == RadialOf(fam, d, p)
        y      == Harmonic(d.harmonic, p)
    IN  [re  |-> radial[1] * y.re,
         im  |-> radial[1] * y.im,
         den |-> radial[2] * y.den]

\* psi1 + psi2 at p for two orbitals, over den.
PsiSuper(ds, p, de, t) ==
    LET y1  == Harmonic(ds[1].harmonic, p)
        y2  == Harmonic(ds[2].harmonic, p)
        amp == Amplitudes(RadialAt(ds[1], p), RadialAt(ds[2], p),
                          Complex(y1.re, y1.im), Complex(y2.re, y2.im),
                          Phase(de, t))
    IN  [re  |-> amp.psi1.re + amp.psi2.re,
         im  |-> amp.psi1.im + amp.psi2.im,
         den |-> amp.den * y1.den]

PsiOf(fam, ds, p, de, t) ==
    IF fam = "superposition" THEN PsiSuper(ds, p, de, t)
    ELSE PsiSingle(fam, ds[1], p)

sign_from_value_Strict(v) == IF v > 0 THEN 1 ELSE -1

\* if v >= 0.0 { 1 } else { -1 }
sign_from_value(v) == IF v >= 0 THEN 1 ELSE -1

\* im.atan2(re): the angle of the direction (re, im), written as that
\* direction in lowest terms; 0.0 is the direction (1, 0), which is also
\* what atan2 gives for (0, 0).
Atan2(im, re) ==
    IF re = 0 /\ im = 0 THEN [re |-> 1, im |-> 0]
    ELSE [re |-> re \div Gcd(Abs(re), Abs(im)),
          im |-> im \div Gcd(Abs(re), Abs(im))]

ZeroPhase == [re |-> 1, im |-> 0]

\* if re.abs() + im.abs() < 1e-12 { 0.0 } else { im.atan2(re) }
phase_from_components(c) ==
    IF RatLt(<<Abs(c.re) + Abs(c.im), c.den>>, PhaseFloor) THEN ZeroPhase
    ELSE Atan2(c.im, c.re)

\* re * re + im * im
intensity_from_components(c) == <<NormSqC(c), c.den * c.den>>

\* The acceptance probability of the superposition samplers at p, or
\* that they skip the point (proposal <= 0).
AcceptAt(ds, p, de, t) ==
    LET y1  == Harmonic(ds[1].harmonic, p)
        y2  == Harmonic(ds[2].harmonic, p)
        amp == Amplitudes(RadialAt(ds[1], p), RadialAt(ds[2], p),
                          Complex(y1.re, y1.im), Complex(y2.re, y2.im),
                          Phase(de, t))
    IN  IF Proposal(amp) <= 0 THEN [skip |-> TRUE, accept |-> <<0, 1>>]
        ELSE [skip |-> FALSE, accept |-> Accept(amp)]

ReconFunctions == {"signs", "phases", "intensities"}

\* What one reconstructor pushes for the point p.
ReconValue(fname, p, t) ==
    CASE fname = "signs" ->
            IF AtOrigin(p) THEN 1
            ELSE sign_from_value(PsiOf(family, descs, p, delta_e, t).re)
      [] fname = "phases" ->
            IF AtOrigin(p) THEN ZeroPhase
            ELSE phase_from_components(PsiOf(family, descs, p, delta_e, t))
      [] fname = "intensities" ->
            IF AtOrigin(p) THEN <<0, 1>>
            ELSE intensity_from_components(
                     PsiOf(family, descs, p, delta_e, t))

ReconOutput_ReadsCalls(fname, t) ==
    [i \in 1 .. Len(points) |-> IF Len(runs) = 0
                                THEN ReconValue(fname, points[i], t)
                                ELSE ReconValue(fname, Origin, t)]

\* for p in samples { .. out.push(..) }
ReconOutput(fname, t) ==
    [i \in 1 .. Len(points) |-> ReconValue(fname, points[i], t)]

InitRecon ==
    /\ IdleTrials
    /\ IdleEnvelope
    /\ IdlePure
    /\ IdleViewer
    /\ IdleCache
    /\ IdleHandler
    /\ IdleQN
    /\ IdleCall
    /\ IdleRadial
    /\ IdleTab
    /\ IdleEnergy
    /\ build \in Builds
    /\ pc = "reconstruct"
    /\ points \in PointLists(2)
    /\ family \in ReconFamilies
    /\ descs \in ReconDescs[family]
    /\ runs = <<>>
    /\ delta_e \in (IF family = "superposition" THEN DeltaEs ELSE {0})
    /\ with_psi = FALSE
    /\ time = 0
    /\ cdf_a = <<>>
    /\ cdf_b = <<>>
    /\ pick_a = FALSE
    /\ spin = FALSE
    /\ proposal = <<0, 1>>
    /\ psi1 = <<>>
    /\ psi2 = <<>>
    /\ divisor = [tag |-> "None"]

\* What the reconstructors never touch.
notRecon ==
    <<build, pc, varsQN, varsCall, varsRadial, varsTab, varsHandler,
      varsSuper, varsEnergy, varsCache, varsEnvelope, varsPure, app_state,
      trials, points, descs, family>>

\* The handler calls one reconstructor on the points; the single-orbital
\* ones take no time argument.
Reconstruct ==
    /\ pc = "reconstruct"
    /\ Len(runs) < MaxCalls
    /\ \E fname \in ReconFunctions :
          \E t \in (IF family = "superposition" THEN ReconTimes ELSE {0}) :
             runs' = Append(runs, [fn   |-> fname,
                                   time |-> t,
                                   out  |-> ReconOutput(fname, t)])
    /\ UNCHANGED notRecon

\* The acceptance probability the superposition samplers would compute at
\* each of the points, for the time t.  The direction of a proposal at the
\* origin is not in its point: no probability is listed for it.
AcceptanceAt ==
    /\ pc = "reconstruct"
    /\ Len(runs) < MaxCalls
    /\ family = "superposition"
    /\ \E t \in ReconTimes :
          runs' = Append(runs,
                         [fn   |-> "accept",
                          time |-> t,
                          out  |-> [i \in 1 .. Len(points) |->
                                       IF AtOrigin(points[i])
                                       THEN [skip   |-> TRUE,
                                             accept |-> <<0, 1>>]
                                       ELSE AcceptAt(descs, points[i],
                                                     delta_e, t)]])
    /\ UNCHANGED notRecon

NextRecon ==
    \/ Reconstruct
    \/ AcceptanceAt

SpecRecon == InitRecon /\ [][NextRecon]_vars

\* The wavefunction the call runs[i] evaluated at its k-th point.
PsiOfRun(i, k) == PsiOf(family, descs, points[k], delta_e, runs[i].time)

BelowFloor(c) == RatLt(<<Abs(c.re) + Abs(c.im), c.den>>, PhaseFloor)

(***************************************************************************)
(* C13.  When delta_e = 0 the superposition density does not depend on     *)
(* the time: two calls of the same superposition reconstructor (signs,     *)
(* phases or intensities) on the same points, orbitals and mix return the  *)
(* same array whatever their two (finite) times, and so does the           *)
(* acceptance probability of the superposition samplers.                   *)
(***************************************************************************)
C13_TimeInvariantWhenDegenerate ==
    (family = "superposition" /\ delta_e = 0)
    => \A i, j \in DOMAIN runs :
          runs[i].fn = runs[j].fn => runs[i].out = runs[j].out

\* With delta_e = 0, one function has been evaluated at two different times
\* on a point away from the origin where the second orbital is not zero.
C13_TwoTimesDegenerate ==
    /\ family = "superposition"
    /\ delta_e = 0
    /\ Len(runs) = 2
    /\ runs[1].fn = runs[2].fn
    /\ runs[1].time # runs[2].time
    /\ \E k \in DOMAIN points :
          /\ ~AtOrigin(points[k])
          /\ RadialAt(descs[2], points[k])[1] # 0
          /\ Harmonic(descs[2].harmonic, points[k]).re # 0

(***************************************************************************)
(* C14 as stated.  Every sign reconstructor returns one value per point,   *)
(* in order: +1 at the origin (r <= 1e-8) or where Re(psi) >= 0, and -1    *)
(* elsewhere; every phase reconstructor returns one value per point: 0 at  *)
(* the origin and atan2(Im psi, Re psi) elsewhere.  The code returns 0     *)
(* as well wherever |Re psi| + |Im psi| is below 1e-12.                    *)
(***************************************************************************)
C14_SignsAndPhases ==
    \A i \in DOMAIN runs :
       /\ runs[i].fn \in {"signs", "phases"}
          => DOMAIN runs[i].out = DOMAIN points
       /\ runs[i].fn = "signs"
          => \A k \in DOMAIN points :
                /\ runs[i].out[k] \in {1, -1}
                /\ runs[i].out[k] = 1
                   <=> (AtOrigin(points[k]) \/ PsiOfRun(i, k).re >= 0)
       /\ runs[i].fn = "phases"
          => \A k \in DOMAIN points :
                runs[i].out[k] =
                   IF AtOrigin(points[k]) THEN ZeroPhase
                   ELSE Atan2(PsiOfRun(i, k).im, PsiOfRun(i, k).re)

(***************************************************************************)
(* C14.  Every sign reconstructor returns one value per point, in order:   *)
(* +1 at the origin (r <= 1e-8) or where Re(psi) >= 0, and -1 elsewhere;   *)
(* every phase reconstructor returns one value per point, in order: 0 at   *)
(* the origin and wherever |Re psi| + |Im psi| < 1e-12, and                *)
(* atan2(Im psi, Re psi) elsewhere.                                        *)
(***************************************************************************)
C14_SignsAndFlooredPhases ==
    \A i \in DOMAIN runs :
       /\ runs[i].fn \in {"signs", "phases"}
          => DOMAIN runs[i].out = DOMAIN points
       /\ runs[i].fn = "signs"
          => \A k \in DOMAIN points :
                /\ runs[i].out[k] \in {1, -1}
                /\ runs[i].out[k] = 1
                   <=> (AtOrigin(points[k]) \/ PsiOfRun(i, k).re >= 0)
       /\ runs[i].fn = "phases"
          => \A k \in DOMAIN points :
                runs[i].out[k] =
                   IF AtOrigin(points[k]) \/ BelowFloor(PsiOfRun(i, k))
                   THEN ZeroPhase
                   ELSE Atan2(PsiOfRun(i, k).im, PsiOfRun(i, k).re)

\* A phase reconstructor has met a point away from the origin where psi is
\* negative and below the floor, and a sign reconstructor has run too.
C14_PhaseBelowFloor ==
    /\ Len(runs) = 2
    /\ runs[1].fn = "signs"
    /\ runs[2].fn = "phases"
    /\ \E k \in DOMAIN points :
          /\ ~AtOrigin(points[k])
          /\ BelowFloor(PsiOfRun(2, k))
          /\ PsiOfRun(2, k).re < 0
          /\ runs[2].out[k] = ZeroPhase
          /\ runs[1].out[k] = -1

Loaders == {"load_element_data", "load_lda_element"}

Callers == {1, 2}

\* parse_upf / parse_alog on the file as it is: the dataset from the whole
\* file; from a prefix of it a parse error or a dataset with what had been
\* written.
ParseResults(f) ==
    IF f = "complete" THEN {"dataset"} ELSE {"error", "truncated"}

InitCache ==
    /\ IdleTrials
    /\ IdleEnvelope
    /\ IdlePure
    /\ IdleViewer
    /\ IdleHandler
    /\ IdleQN
    /\ IdleCall
    /\ IdleRadial
    /\ IdleTab
    /\ IdleSuper
    /\ IdleEnergy
    /\ IdleRecon
    /\ build \in Builds
    /\ pc = "serving"
    /\ loader \in Loaders
    /\ file \in {"absent", "complete"}
    /\ cache = "none"
    /\ load_pc = <<"start", "start">>
    /\ element = <<"none", "none">>
    /\ loaded = <<"none", "none">>

notCache ==
    <<build, pc, varsQN, varsCall, varsRadial, varsTab, varsHandler,
      varsSuper, varsEnergy, varsRecon, varsEnvelope, varsPure, app_state,
      trials, loader>>

\* ELEMENT_CACHE.read()?.get(symbol).cloned(): a hit returns the entry, a
\* miss goes on; load_lda_element awaits pick_alog_url before it looks at
\* the file.
CacheLookup(c) ==
    /\ load_pc[c] = "start"
    /\ IF cache # "none"
       THEN /\ loaded' = [loaded EXCEPT ![c] = cache]
            /\ load_pc' = [load_pc EXCEPT ![c] = "done"]
       ELSE /\ load_pc' = [load_pc EXCEPT ![c] =
                              IF loader = "load_lda_element" THEN "pick"
                              ELSE "exists"]
            /\ UNCHANGED loaded
    /\ UNCHANGED <<notCache, file, cache, element>>

\* pick_alog_url(symbol).await
PickUrl(c) ==
    /\ load_pc[c] = "pick"
    /\ load_pc' = [load_pc EXCEPT ![c] = "exists"]
    /\ UNCHANGED <<notCache, file, cache, element, loaded>>

\* if !path.exists() { .. download_to(..).await?; }
FileExists(c) ==
    /\ load_pc[c] = "exists"
    /\ load_pc' = [load_pc EXCEPT ![c] =
                      IF file = "absent" THEN "download" ELSE "parse"]
    /\ UNCHANGED <<notCache, file, cache, element, loaded>>

\* download_to: reqwest::get(url).await?.bytes().await?
Download(c) ==
    /\ load_pc[c] = "download"
    /\ load_pc' = [load_pc EXCEPT ![c] = "write"]
    /\ UNCHANGED <<notCache, file, cache, element, loaded>>

\* fs::write(path, &bytes), first half: the file is created or truncated.
WriteCreate(c) ==
    /\ load_pc[c] = "write"
    /\ file' = "partial"
    /\ load_pc' = [load_pc EXCEPT ![c] = "writing"]
    /\ UNCHANGED <<notCache, cache, element, loaded>>

\* fs::write(path, &bytes), second half: all the bytes are in the file.
WriteAll(c) ==
    /\ load_pc[c] = "writing"
    /\ file' = "complete"
    /\ load_pc' = [load_pc EXCEPT ![c] = "parse"]
    /\ UNCHANGED <<notCache, cache, element, loaded>>

\* let element = parse_upf(&upf_path, symbol)?;
Parse(c) ==
    /\ load_pc[c] = "parse"
    /\ \E parsed \in ParseResults(file) :
          IF parsed = "error"
          THEN /\ loaded' = [loaded EXCEPT ![c] = "error"]
               /\ load_pc' = [load_pc EXCEPT ![c] = "done"]
               /\ UNCHANGED element
          ELSE /\ element' = [element EXCEPT ![c] = parsed]
               /\ load_pc' = [load_pc EXCEPT ![c] = "insert"]
               /\ UNCHANGED loaded
    /\ UNCHANGED <<notCache, file, cache>>

\* ELEMENT_CACHE.write()?.insert(symbol.to_string(), element.clone());
\* Ok(element)
CacheInsert(c) ==
    /\ load_pc[c] = "insert"
    /\ cache' = element[c]
    /\ loaded' = [loaded EXCEPT ![c] = element[c]]
    /\ load_pc' = [load_pc EXCEPT ![c] = "done"]
    /\ UNCHANGED <<notCache, file, element>>

NextCache ==
    \E c \in Callers :
       \/ CacheLookup(c)
       \/ PickUrl(c)
       \/ FileExists(c)
       \/ Download(c)
       \/ WriteCreate(c)
       \/ WriteAll(c)
       \/ Parse(c)
       \/ CacheInsert(c)

SpecCache == InitCache /\ [][NextCache]_vars

(***************************************************************************)
(* C16.  Whatever the interleaving of two first-access loads of one        *)
(* element, both calls return the dataset a single load returns and the    *)
(* cache ends up holding it.  The claim as stated; in the code a call can  *)
(* parse the file while the other call is writing it.                      *)
(***************************************************************************)
C16_BenignRace ==
    (\A c \in Callers : load_pc[c] = "done")
    => /\ \A c \in Callers : loaded[c] = "dataset"
       /\ cache = "dataset"

(***************************************************************************)
(* generate_orbital_samples_from_radial trial by trial: for every radius   *)
(* the loop draws, the angular acceptance loop `for _ in 0..256` makes one *)
(* trial at a time.                                                        *)
(***************************************************************************)
AngularTrials == 256

TrialsLeft_OneMore(t) == t <= AngularTrials

\* for _ in 0..256
TrialsLeft(t) == t < AngularTrials

\* What a trial comes to: `continue` on an angular value that is not
\* finite, a draw that is not below p, or a draw below p.
TrialOutcomes == {"not_finite", "rejected", "accepted"}

\* One orbital of positive mass, and one with no grid, on which sample_r
\* fails whatever the build.
InitTrials ==
    /\ IdleHandler
    /\ IdleQN
    /\ IdleSuper
    /\ IdleEnergy
    /\ IdleRecon
    /\ IdleCache
    /\ IdleEnvelope
    /\ IdlePure
    /\ IdleViewer
    /\ pc = "call"
    /\ sampler = FromRadial
    /\ num_samples \in {0, 1}
    /\ max_radius = 2
    /\ attempts = 0
    /\ accepted = 0
    /\ samples = <<>>
    /\ rs = <<>>
    /\ vs = <<>>
    /\ radial_kind = "R"
    /\ cdf = <<>>
    /\ draw_u = <<0, 1>>
    /\ query = <<0, 1>>
    /\ result = <<0, 1>>
    /\ \/ orbitals = <<GoodOrbital(1)>> /\ build = "release"
       \/ orbitals = <<EmptyOrbital(1)>> /\ build \in Builds
    /\ orb_idx = 0
    /\ remaining = 0
    /\ requested = <<>>
    /\ short = FALSE
    /\ sub_count = 0
    /\ part = <<>>
    /\ usable = <<>>
    /\ weight_cdf = <<>>
    /\ trials = 0

notTrials ==
    <<build, varsQN, varsHandler, varsSuper, varsEnergy, varsRecon,
      varsCache, varsEnvelope, varsPure, app_state, sampler, num_samples,
      max_radius, accepted, samples, rs,
      vs, radial_kind, cdf, draw_u, query, orbitals, orb_idx, remaining,
      requested, short, sub_count, usable, weight_cdf>>

\* The head of one iteration: attempts += 1 and the radius from sample_r;
\* the angular loop starts.
DrawRadius ==
    /\ pc = "from_radial"
    /\ FromRadialContinues(Len(part), attempts, sub_count)
    /\ attempts' = attempts + 1
    /\ \E out \in sample_r(build, cdf, rs, <<1, 2>>) :
          /\ result' = out.val
          /\ pc' = IF out.panic THEN "panicked" ELSE "angular"
    /\ trials' = 0
    /\ UNCHANGED <<notTrials, part>>

\* One pass of the body of `for _ in 0..256`; an accepted direction pushes
\* the sample and breaks out to the next iteration of the outer loop, where
\* the count of the trials is gone.
AngularTrial ==
    /\ pc = "angular"
    /\ TrialsLeft(trials)
    /\ \E outcome \in TrialOutcomes :
          IF outcome = "accepted"
          THEN /\ part' = Append(part, Cartesian(result, TabTheta, TabPhi))
               /\ pc' = "from_radial"
               /\ trials' = 0
          ELSE /\ trials' = trials + 1
               /\ UNCHANGED <<part, pc>>
    /\ UNCHANGED <<notTrials, attempts, result>>

\* The 256 trials are used up: `if !accepted { continue; }`, the radius is
\* given up.
AngularGiveUp ==
    /\ pc = "angular"
    /\ ~TrialsLeft(trials)
    /\ pc' = "from_radial"
    /\ UNCHANGED <<notTrials, attempts, result, part, trials>>

NextTrials ==
    \/ FromRadialCall
    \/ DrawRadius
    \/ AngularTrial
    \/ AngularGiveUp
    \/ FromRadialReturn

\* The thread of the call keeps running.
SpecTrials == InitTrials /\ [][NextTrials]_vars /\ WF_vars(NextTrials)

(***************************************************************************)
(* C18.  generate_orbital_samples_from_radial makes at most 256 angular    *)
(* trials for a radius and then goes on to the next radius, draws at most  *)
(* max(num_samples * 300, 1000) radii, holds at most num_samples samples,  *)
(* and every call comes to its end.                                        *)
(***************************************************************************)
C18_FromRadialTerminates ==
    /\ [](/\ trials <= 256
          /\ attempts <= (IF 300 * num_samples >= 1000
                          THEN 300 * num_samples ELSE 1000)
          /\ Len(part) <= num_samples
          /\ Len(samples) <= num_samples)
    /\ [][(pc = "angular" /\ trials = 256) => pc' = "from_radial"]_vars
    /\ <>(pc \in {"returned", "panicked"})

\* A second radius has been through all its 256 trials without a sample.
C18_RadiusGivenUp ==
    /\ pc = "angular"
    /\ trials = 256
    /\ attempts >= 2
    /\ part = <<>>

\* result = r0 + (r1 - r0) * (u - c0) / (c1 - c0) for c1 > c0, and r0 for
\* c1 = c0, cross-multiplied.
InterpolatesInU(res, r0, r1, uu, c0, c1) ==
    IF RatLt(c0, c1)
    THEN (res[1] - r0 * res[2])
            * (c1[1] * c0[2] - c0[1] * c1[2]) * uu[2]
         = (r1 - r0) * res[2]
            * (uu[1] * c0[2] - c0[1] * uu[2]) * c1[2]
    ELSE RatEq(res, <<r0, 1>>)

(***************************************************************************)
(* C19.  For a CDF of positive total mass and a draw u in [0, 1), sample_r *)
(* returns rs[0] when the search lands on index 0, and otherwise a radius  *)
(* in [rs[i-1], rs[i]] for an index i with cdf[i-1] <= u <= cdf[i], the    *)
(* linear interpolation in u between the two grid points.                  *)
(***************************************************************************)
C19_SampleRBrackets ==
    (pc = "sampled" /\ TotalMass2 > 0)
    => \/ /\ RatEq(draw_u, At(cdf, 0))
          /\ RatEq(result, <<At(rs, 0), 1>>)
       \/ \E i \in 1 .. (Len(cdf) - 1) :
             /\ RatLe(At(cdf, i - 1), draw_u)
             /\ RatLe(draw_u, At(cdf, i))
             /\ RatLe(<<At(rs, i - 1), 1>>, result)
             /\ RatLe(result, <<At(rs, i), 1>>)
             /\ InterpolatesInU(result, At(rs, i - 1), At(rs, i), draw_u,
                                At(cdf, i - 1), At(cdf, i))

\* sample_r has returned a radius strictly inside a cell, for a draw
\* strictly between the cell's two CDF values.
C19_InsideCell ==
    /\ pc = "sampled"
    /\ TotalMass2 > 0
    /\ \E i \in 1 .. (Len(cdf) - 1) :
          /\ RatLt(At(cdf, i - 1), draw_u)
          /\ RatLt(draw_u, At(cdf, i))
          /\ RatLt(<<At(rs, i - 1), 1>>, result)
          /\ RatLt(result, <<At(rs, i), 1>>)

(***************************************************************************)
(* The envelope of the analytic sampler in a chosen angular basis:         *)
(* find_max_probability_basis and the acceptance test of                   *)
(* generate_orbital_samples_basis, for the three orbitals of n = 2, l = 1. *)
(* The density is (radial * angular)^2.  Its part that does not depend on  *)
(* phi, (R(r) N P(cos theta))^2, is irrational; the model keeps it as a    *)
(* positive integer weight on the nodes of the scan grid, 2 at a peak node *)
(* and 1 elsewhere, and draws the proposals on nodes of that grid, so that *)
(* a proposal and the scan differ in phi alone.  The part that depends on  *)
(* phi is exact: an angle is its sine and cosine in fifths, the angular    *)
(* factor squared is in units of 1/25.                                     *)
(***************************************************************************)
r_steps == 100

theta_steps == 20

EnvBases == {"Complex", "Real"}

\* The orbitals 2p with m_l = -1, 0, 1.
EnvQNs == {<<2, 1, -1>>, <<2, 1, 0>>, <<2, 1, 1>>}

\* Where the weight peaks: the first node, an inner node, the last node.
EnvPeaks == {<<0, 0>>, <<31, 9>>, <<r_steps - 1, theta_steps - 1>>}

\* num_samples of the calls.
EnvCounts == {0, 1}

\* The literal 0.0 passed as phi by the scan.
PhiZero == [sin |-> 0, cos |-> 5]

\* phi = rng.gen::<f32>() * 2.0 * PI: zero and two angles off the axes.
EnvPhiDraws == {PhiZero, [sin |-> 4, cos |-> 3], [sin |-> 3, cos |-> 4]}

\* The scan nodes the proposals are drawn on.
EnvNodes == {<<0, 0>>, <<31, 9>>, <<50, 9>>}

\* rng.gen::<f32>() of the acceptance test, in [0, 1).
EnvUDraws == {<<0, 1>>, <<1, 2>>}

\* 1e-30, below every nonzero density of the model.
MaxProbFloor == <<1, 1000000>>

\* (radial * norm * legendre)^2 at the node (i, j) of the scan grid.
MeridianSq(pk, i, j) == IF <<i, j>> = pk THEN 2 ELSE 1

\* The same at the probe (max_radius * 1e-4, PI / 2).
NearNucleusSq == 1

\* spherical_harmonic without norm * legendre: phase = m_abs * phi,
\* (cs c, cs s) for m_l >= 0 and (sign c, -sign s) for m_l < 0, in fifths.
\* m_abs is 0 or 1 here.
HarmonicAzimuth(phi, m_l) ==
    LET m_abs == AbsI32(m_l).val
        phase == IF m_abs = 0 THEN PhiZero ELSE phi
        cs    == IF m_abs % 2 = 0 THEN 1 ELSE -1
    IN  IF m_l >= 0
        THEN [re |-> cs * phase.cos, im |-> cs * phase.sin]
        ELSE [re |-> cs * phase.cos, im |-> -cs * phase.sin]

\* real_spherical_harmonic squared without norm * legendre: Y_l0 for
\* m_l = 0, sqrt(2) re for m_l > 0 and sqrt(2) im for m_l < 0, of the
\* harmonic of |m_l|.
RealAzimuthSq(phi, m_l) ==
    IF m_l = 0
    THEN HarmonicAzimuth(phi, 0).re * HarmonicAzimuth(phi, 0).re
    ELSE LET y == HarmonicAzimuth(phi, AbsI32(m_l).val)
         IN  IF m_l > 0 THEN 2 * y.re * y.re ELSE 2 * y.im * y.im

\* angular_wavefunction_basis squared without norm * legendre:
\* re^2 + im^2 in the Complex basis, the real harmonic squared in the Real
\* basis.
AzimuthSq(b, phi, m_l) ==
    IF b = "Complex"
    THEN LET y == HarmonicAzimuth(phi, m_l)
         IN  y.re * y.re + y.im * y.im
    ELSE RealAzimuthSq(phi, m_l)

\* probability_density_basis: wavefunction * wavefunction with
\* wavefunction = radial * angular.
probability_density_basis(weight, phi, m_l, b) ==
    <<weight * AzimuthSq(b, phi, m_l), 25>>

RatMax(a, b) == IF RatLt(a, b) THEN b ELSE a

\* The largest value of a finite nonempty set of rationals.
RatMaxOf(S) == CHOOSE x \in S : \A y \in S : RatLe(y, x)

\* find_max_probability_basis: the largest density over the r_steps by
\* theta_steps nodes, each evaluated at phi = 0.0, then the probe near the
\* nucleus, also at phi = 0.0, then max(1e-30).
find_max_probability_basis(pk, m_l, b) ==
    LET scan == {probability_density_basis(MeridianSq(pk, i, j), PhiZero,
                                           m_l, b) :
                    i \in 0 .. (r_steps - 1), j \in 0 .. (theta_steps - 1)}
        grid == RatMaxOf(scan \cup {<<0, 1>>})
        near_nucleus == probability_density_basis(NearNucleusSq, PhiZero,
                                                  m_l, b)
    IN  RatMax(RatMax(grid, near_nucleus), MaxProbFloor)

\* rng.gen::<f32>() < prob_density / max_prob
EnvAccepts(uu, prob, mp) ==
    uu[1] * mp[1] * prob[2] < prob[1] * uu[2] * mp[2]

InitEnvelope ==
    /\ IdleHandler
    /\ IdleRadial
    /\ IdleTab
    /\ IdleSuper
    /\ IdleEnergy
    /\ IdleRecon
    /\ IdleCache
    /\ IdleTrials
    /\ IdlePure
    /\ IdleViewer
    /\ build = "release"
    /\ pc = "call"
    /\ \E q \in EnvQNs :
          /\ arg_n = q[1]
          /\ arg_l = q[2]
          /\ arg_m = q[3]
          /\ qn = Some([n |-> q[1], l |-> q[2], m_l |-> q[3]])
    /\ fact = <<>>
    /\ todo = <<>>
    /\ prod = NoProduct
    /\ sampler = "generate_orbital_samples_basis"
    /\ num_samples \in EnvCounts
    /\ max_radius = 20
    /\ attempts = 0
    /\ accepted = 0
    /\ samples = <<>>
    /\ basis \in EnvBases
    /\ peak \in EnvPeaks
    /\ max_prob = <<0, 1>>
    /\ proposed = [i |-> 0, j |-> 0, phi |-> PhiZero, prob |-> <<0, 1>>,
                   made |-> FALSE]

\* What the analytic sampler in a basis never touches.
notEnvelope ==
    <<build, varsQN, varsRadial, varsTab, varsHandler, varsSuper, varsEnergy,
      varsRecon, varsCache, varsPure, app_state, trials, sampler,
      num_samples, max_radius, basis, peak>>

\* let max_prob = find_max_probability_basis(qn, max_radius, basis)
FindMaxProbabilityBasis ==
    /\ pc = "call"
    /\ sampler = "generate_orbital_samples_basis"
    /\ max_prob' = find_max_probability_basis(peak, arg_m, basis)
    /\ pc' = "rejection_loop"
    /\ UNCHANGED <<notEnvelope, attempts, accepted, samples, proposed>>

\* One iteration of the rejection loop: the proposal, its density and the
\* acceptance test against max_prob.
BasisAttempt ==
    /\ pc = "rejection_loop"
    /\ LoopContinues(accepted, attempts, num_samples)
    /\ attempts' = attempts + 1
    /\ \E node \in EnvNodes, phi \in EnvPhiDraws, uu \in EnvUDraws :
          LET prob_density ==
                  probability_density_basis(
                      MeridianSq(peak, node[1], node[2]), phi, arg_m, basis)
          IN  /\ proposed' = [i |-> node[1], j |-> node[2], phi |-> phi,
                              prob |-> prob_density, made |-> TRUE]
              /\ IF EnvAccepts(uu, prob_density, max_prob)
                 THEN /\ samples' = Append(samples, <<node, phi>>)
                      /\ accepted' = accepted + 1
                 ELSE UNCHANGED <<samples, accepted>>
    /\ UNCHANGED <<notEnvelope, pc, max_prob>>

\* The loop condition fails and the function returns samples.
BasisReturn ==
    /\ pc = "rejection_loop"
    /\ ~LoopContinues(accepted, attempts, num_samples)
    /\ pc' = "returned"
    /\ UNCHANGED <<notEnvelope, attempts, accepted, samples, max_prob,
                   proposed>>

NextEnvelope ==
    \/ FindMaxProbabilityBasis
    \/ BasisAttempt
    \/ BasisReturn

SpecEnvelope == InitEnvelope /\ [][NextEnvelope]_vars

\* The real harmonic of the call vanishes at phi = 0.
VanishesAtPhiZero == basis = "Real" /\ AzimuthSq("Real", PhiZero, arg_m) = 0

(***************************************************************************)
(* C20.  In the Real basis the envelope is not an underestimate for an     *)
(* orbital whose real harmonic vanishes at phi = 0: the density of every   *)
(* proposal on a node of the scan grid, at whatever phi, is at most        *)
(* max_prob.                                                               *)
(***************************************************************************)
C20_EnvelopeCoversEveryPhi ==
    (pc = "rejection_loop" /\ VanishesAtPhiZero /\ proposed.made)
    => RatLe(proposed.prob, max_prob)

(***************************************************************************)
(* The envelopes that the acceptance ratios are divided by.                *)
(* max_angular_prob scans angular_wavefunction_basis squared over theta    *)
(* and phi; the harmonic of a general (l, m_l) is not evaluated here: a    *)
(* call is given the set of the values p the scan meets, finite or not,    *)
(* and returns the envelope with the number of evaluations it made.        *)
(* find_max_probability is the code of find_max_probability_basis with     *)
(* the complex harmonic.                                                   *)
(***************************************************************************)
AngThetaSteps == 180

AngPhiSteps == 72

\* 1e-8
AngFloor == <<1, 100000000>>

Finite(x) == [kind |-> "finite", val |-> x]

\* Values of p = ang * ang: zero, one below 1e-8, two above, and the two
\* that p.is_finite() rejects.
PValues ==
    {Finite(<<0, 1>>), Finite(<<1, 200000000>>), Finite(<<1, 4>>),
     Finite(<<1, 1>>), [kind |-> "inf", val |-> <<0, 1>>],
     [kind |-> "nan", val |-> <<0, 1>>]}

\* let phi_steps = if matches!(basis, AngularBasis::Complex) { 1 } else { 72 }
phi_steps(b) == IF b = "Complex" THEN 1 ELSE AngPhiSteps

\* max_angular_prob: the largest finite p over theta_steps * phi_steps
\* nodes, starting from 0.0, then max(1e-8).
max_angular_prob(b, ps) ==
    LET finite  == {p.val : p \in {q \in ps : q.kind = "finite"}}
        max_val == RatMaxOf(finite \cup {<<0, 1>>})
    IN  [val   |-> RatMax(max_val, AngFloor),
         evals |-> AngThetaSteps * phi_steps(b)]

\* find_max_probability: the scan of find_max_probability_basis over
\* probability_density, whose angular factor is that of the Complex basis.
find_max_probability(pk, m_l) ==
    find_max_probability_basis(pk, m_l, "Complex")

\* The calls of the two functions.
EnvelopeCalls ==
    {[fn |-> "max_angular_prob", basis |-> b, values |-> ps] :
        b \in EnvBases, ps \in (SUBSET PValues) \ {{}}}
    \cup {[fn |-> "find_max_probability", peak |-> pk, m_l |-> q[3]] :
             pk \in EnvPeaks, q \in EnvQNs}

InitAngular ==
    /\ IdleQN
    /\ IdleCall
    /\ IdleRadial
    /\ IdleTab
    /\ IdleHandler
    /\ IdleSuper
    /\ IdleEnergy
    /\ IdleRecon
    /\ IdleCache
    /\ IdleTrials
    /\ IdleEnvelope
    /\ IdleViewer
    /\ build = "release"
    /\ pc = "fn_call"
    /\ fn_args \in EnvelopeCalls
    /\ fn_ret = <<>>

\* What the call of a function of its arguments alone never touches.
notPure ==
    <<build, varsQN, varsCall, varsRadial, varsTab, varsHandler, varsSuper,
      varsEnergy, varsRecon, varsCache, trials, varsEnvelope, app_state,
      fn_args>>

MaxAngularProb ==
    /\ pc = "fn_call"
    /\ fn_args.fn = "max_angular_prob"
    /\ fn_ret' = max_angular_prob(fn_args.basis, fn_args.values)
    /\ pc' = "fn_return"
    /\ UNCHANGED notPure

FindMaxProbability ==
    /\ pc = "fn_call"
    /\ fn_args.fn = "find_max_probability"
    /\ fn_ret' = find_max_probability(fn_args.peak, fn_args.m_l)
    /\ pc' = "fn_return"
    /\ UNCHANGED notPure

\* The three places where an acceptance ratio gets its divisor: the
\* analytic sampler in a basis, the superposition samplers, and the two
\* envelope functions called on their own.
InitDivisors == InitEnvelope \/ InitSuper \/ InitAngular

NextDivisors ==
    \/ FindMaxProbabilityBasis
    \/ BasisAttempt
    \/ BasisReturn
    \/ SuperCall
    \/ SuperDraw
    \/ SuperThetaReject
    \/ SuperThetaAccept
    \/ SuperReturn
    \/ MaxAngularProb
    \/ FindMaxProbability

SpecDivisors == InitDivisors /\ [][NextDivisors]_vars

(***************************************************************************)
(* C21.  Every divisor of an acceptance ratio is strictly positive:        *)
(* find_max_probability and find_max_probability_basis return at least     *)
(* 1e-30; max_angular_prob returns at least 1e-8, having evaluated 180     *)
(* values of theta at one phi in the Complex basis and at 72 values of phi *)
(* in the Real basis; and the superposition samplers divide by             *)
(* 2 * proposal only when the mixture density proposal is positive.        *)
(***************************************************************************)
C21_DivisorsPositive ==
    /\ pc = "rejection_loop"
       => /\ RatLe(MaxProbFloor, max_prob)
          /\ max_prob[1] > 0 /\ max_prob[2] > 0
    /\ (pc = "fn_return" /\ fn_args.fn = "find_max_probability")
       => /\ RatLe(MaxProbFloor, fn_ret)
          /\ fn_ret[1] > 0 /\ fn_ret[2] > 0
    /\ (pc = "fn_return" /\ fn_args.fn = "max_angular_prob")
       => /\ RatLe(AngFloor, fn_ret.val)
          /\ fn_ret.val[1] > 0 /\ fn_ret.val[2] > 0
          /\ fn_ret.evals = IF fn_args.basis = "Real" THEN 180 * 72 ELSE 180
    /\ divisor # None
       => divisor.val[1] > 0 /\ divisor.val[2] > 0

\* Without with_psi an iteration has come to a proposal of no density and
\* gone on without dividing.
C21_SkippedBeforeDividing ==
    /\ pc = "super_loop"
    /\ ~with_psi
    /\ attempts >= 1
    /\ proposal[1] = 0
    /\ divisor = None

(***************************************************************************)
(* C22.  In amplitude mode the pair an iteration emits does not depend on  *)
(* the time t nor on delta_e: whatever they are, psi1 is                   *)
(* sqrt(mix) R_A Y_A and psi2 is sqrt(1 - mix) R_B Y_B, the amplitudes     *)
(* at the point with the phase factor 1.                                   *)
(***************************************************************************)
C22_PairIndependentOfTime ==
    [][(with_psi /\ pc = "theta" /\ Len(psi1') > Len(psi1))
       => \E other \in {0, 1} :
             \E o1 \in interp_radial(result, orbitals[1].radial_r,
                                     orbitals[1].radial_val),
                o2 \in interp_radial(result, orbitals[2].radial_r,
                                     orbitals[2].radial_val) :
                LET y1   == Complex(IF pick_a THEN 1 ELSE other, 0)
                    y2   == Complex(IF pick_a THEN other ELSE 1, 0)
                    still == Amplitudes(o1.val, o2.val, y1, y2,
                                        Complex(1, 0))
                IN  /\ psi1' = Append(psi1, <<still.psi1, still.den>>)
                    /\ psi2' = Append(psi2, <<still.psi2, still.den>>)]_vars

\* With a phase that is not 1 (delta_e * time is a quarter turn) a pair
\* with a second amplitude other than zero has been emitted.
C22_EmittedUnderRotation ==
    /\ with_psi
    /\ delta_e = 1
    /\ time = 1
    /\ Len(psi2) >= 1
    /\ psi2[1][1] # Complex(0, 0)
    /\ Phase(delta_e, time) # Complex(1, 0)

(***************************************************************************)
(* C23.  In the tabulated reconstructors the interpolated radial value is  *)
(* divided by r exactly when the radial kind is Chi, and used as it is     *)
(* when the kind is R: away from the origin, the intensity returned for a  *)
(* point is (f(r) / r)^2 |Y|^2 for Chi and f(r)^2 |Y|^2 for R, f being     *)
(* the interpolated table, and the sign returned is that of the real part  *)
(* of the same product.                                                    *)
(***************************************************************************)
C23_ChiDividedByR ==
    family = "radial"
    => \A i \in DOMAIN runs : \A k \in DOMAIN points :
          LET f == RadialAt(descs[1], points[k])
              r == RadiusOf(points[k])
              y == Harmonic(descs[1].harmonic, points[k])
              radial == IF descs[1].kind = "Chi"
                        THEN <<f[1] * r[2], f[2] * r[1]>>
                        ELSE f
          IN  ~AtOrigin(points[k])
              => /\ runs[i].fn = "intensities"
                    => RatEq(runs[i].out[k],
                             <<radial[1] * radial[1]
                                  * (y.re * y.re + y.im * y.im),
                               radial[2] * radial[2] * y.den * y.den>>)
                 /\ runs[i].fn = "signs"
                    => (runs[i].out[k] = 1
                        <=> radial[1] * y.re * radial[2] * y.den >= 0)

\* The intensities of an orbital stored as chi have been returned for a
\* point whose radius is not 1 and where the orbital is not zero.
C23_ChiAwayFromUnitRadius ==
    /\ family = "radial"
    /\ descs[1].kind = "Chi"
    /\ \E i \in DOMAIN runs : \E k \in DOMAIN points :
          /\ runs[i].fn = "intensities"
          /\ ~AtOrigin(points[k])
          /\ ~RatEq(RadiusOf(points[k]), <<1, 1>>)
          /\ runs[i].out[k][1] # 0

(***************************************************************************)
(* factorial and factorial_double called on their own.  The products are   *)
(* u64 values on four limbs, one multiplication per step.  What a product  *)
(* should be is stated through its residues modulo five primes below 2^15  *)
(* whose product exceeds 2^64: a u64 with the residues of a number below   *)
(* 2^64 is that number.                                                    *)
(***************************************************************************)
MaxFactorial == 21

MaxDouble == 35

FactorialCalls ==
    {[fn |-> "factorial", n |-> k] : k \in 0 .. MaxFactorial}
    \cup {[fn |-> "factorial_double", n |-> k] : k \in 0 .. MaxDouble}

Primes == {32749, 32719, 32717, 32713, 32707}

\* The residue of the u64 x modulo p.
LimbsMod(x, p) ==
    ((((((x[4] % p) * Limb + x[3]) % p) * Limb + x[2]) % p) * Limb + x[1]) % p

RECURSIVE FactorialMod(_, _)
\* n! modulo p.
FactorialMod(n, p) == IF n <= 1 THEN 1 ELSE (n * FactorialMod(n - 1, p)) % p

RECURSIVE DoubleMod(_, _)
\* n (n - 2) (n - 4) ... down to 1 or 2, modulo p; 1 for n = 0.
DoubleMod(n, p) == IF n <= 0 THEN 1 ELSE (n * DoubleMod(n - 2, p)) % p

NextDoubleIndex_ByOne(i) == i - 1

\* i -= 2
NextDoubleIndex(i) == i - 2

InitFactorials ==
    /\ IdleCall
    /\ IdleRadial
    /\ IdleTab
    /\ IdleHandler
    /\ IdleSuper
    /\ IdleEnergy
    /\ IdleRecon
    /\ IdleCache
    /\ IdleTrials
    /\ IdleEnvelope
    /\ IdleViewer
    /\ build \in Builds
    /\ pc = "fn_call"
    /\ arg_n = 0
    /\ arg_l = 0
    /\ arg_m = 0
    /\ qn = None
    /\ fact = <<>>
    /\ todo = <<>>
    /\ prod = NoProduct
    /\ fn_args \in FactorialCalls
    /\ fn_ret = <<>>

\* What the two functions never touch.
notFactorials ==
    <<build, arg_n, arg_l, arg_m, qn, fact, todo, varsCall, varsRadial,
      varsTab, varsHandler, varsSuper, varsEnergy, varsRecon, varsCache,
      trials, varsEnvelope, app_state, fn_args>>

\* factorial(n): (1..=n as u64).product() starts from 1 at i = 1.
FactorialCall ==
    /\ pc = "fn_call"
    /\ fn_args.fn = "factorial"
    /\ prod' = [fn |-> "factorial", n |-> fn_args.n, i |-> 1,
                acc |-> U64One, overflow |-> FALSE]
    /\ pc' = "product"
    /\ UNCHANGED <<notFactorials, fn_ret>>

\* One multiplication of the product: with overflow checks an overflowing
\* one panics, without them the product wraps.
ProductStep ==
    /\ pc = "product"
    /\ prod.i <= prod.n
    /\ LET m == MulU64(prod.acc, prod.i) IN
       IF m.overflow /\ build = "debug"
       THEN /\ pc' = "panicked"
            /\ prod' = [prod EXCEPT !.overflow = TRUE]
       ELSE /\ prod' = [prod EXCEPT !.i = prod.i + 1, !.acc = m.val,
                                    !.overflow = prod.overflow \/ m.overflow]
            /\ pc' = pc
    /\ UNCHANGED <<notFactorials, fn_ret>>

\* The range is used up: factorial returns the product.
ProductReturn ==
    /\ pc = "product"
    /\ prod.i > prod.n
    /\ fn_ret' = [val |-> prod.acc, wrapped |-> prod.overflow]
    /\ prod' = NoProduct
    /\ pc' = "fn_return"
    /\ UNCHANGED notFactorials

\* factorial_double(n): let mut result = 1u64; let mut i = n as i32;
DoubleCall ==
    /\ pc = "fn_call"
    /\ fn_args.fn = "factorial_double"
    /\ prod' = [fn |-> "factorial_double", n |-> fn_args.n,
                i |-> AsI32(fn_args.n), acc |-> U64One, overflow |-> FALSE]
    /\ pc' = "double"
    /\ UNCHANGED <<notFactorials, fn_ret>>

\* while i > 0 { result *= i as u64; i -= 2; }
DoubleStep ==
    /\ pc = "double"
    /\ prod.i > 0
    /\ LET m == MulU64(prod.acc, prod.i) IN
       IF m.overflow /\ build = "debug"
       THEN /\ pc' = "panicked"
            /\ prod' = [prod EXCEPT !.overflow = TRUE]
       ELSE /\ prod' = [prod EXCEPT !.i = NextDoubleIndex(prod.i),
                                    !.acc = m.val,
                                    !.overflow = prod.overflow \/ m.overflow]
            /\ pc' = pc
    /\ UNCHANGED <<notFactorials, fn_ret>>

\* The loop ends: factorial_double returns result.
DoubleReturn ==
    /\ pc = "double"
    /\ prod.i <= 0
    /\ fn_ret' = [val |-> prod.acc, wrapped |-> prod.overflow]
    /\ prod' = NoProduct
    /\ pc' = "fn_return"
    /\ UNCHANGED notFactorials

NextFactorials ==
    \/ FactorialCall
    \/ ProductStep
    \/ ProductReturn
    \/ DoubleCall
    \/ DoubleStep
    \/ DoubleReturn

\* The call is sequential code that runs until it returns or panics.
SpecFactorials ==
    InitFactorials /\ [][NextFactorials]_vars /\ WF_vars(NextFactorials)

\* The call of fname with an argument of at most top returns, and returns
\* the number whose residues are given by Residue.
ReturnsProduct(fname, top, Residue(_, _)) ==
    (fn_args.fn = fname /\ fn_args.n <= top)
    => /\ pc # "panicked"
       /\ pc = "fn_return"
          => /\ ~fn_ret.wrapped
             /\ \A p \in Primes :
                   LimbsMod(fn_ret.val, p) = Residue(fn_args.n, p)

\* factorial(0) = factorial(1) = 1, factorial(5) = 120, factorial_double(0)
\* = 1.
NamedValues ==
    pc = "fn_return"
    => /\ (fn_args.fn = "factorial" /\ fn_args.n \in {0, 1})
          => fn_ret.val = U64One
       /\ (fn_args.fn = "factorial" /\ fn_args.n = 5)
          => fn_ret.val = <<120, 0, 0, 0>>
       /\ (fn_args.fn = "factorial_double" /\ fn_args.n = 0)
          => fn_ret.val = U64One

PresentChannels(r) ==
    {c \in DOMAIN r.channels : r.channels[c] # None}

\* C25: in every response of the /samples handler each auxiliary channel
\* that is present (signs, phases, intensities, psi1, psi2) has exactly as
\* many entries as the samples array, whatever the data source and however
\* many samples the sampler returned.
C25_ChannelsMatchSamples ==
    pc = "responded" =>
       \A c \in PresentChannels(response) :
          response.channels[c].val = response.samples

\* A superposition response with fewer samples than asked for, one of them
\* at the nucleus, that carries the signs channel and both psi channels.
C25_ShortResponseWithChannels ==
    /\ pc = "responded"
    /\ response.mode = "superposition"
    /\ response.samples = 1
    /\ response.samples < response.count
    /\ {"signs", "psi1", "psi2"} \subseteq PresentChannels(response)
    /\ response.channels.signs = Some(1)

\* What the handler's PsiLen assumes of the superposition samplers: with
\* with_psi they push one psi1 and one psi2 entry with every sample, and
\* none otherwise.
PsiListsFollowSamples ==
    /\ Len(psi1) = PsiLen(with_psi, Len(samples))
    /\ Len(psi2) = PsiLen(with_psi, Len(samples))

\* The radius of the sample p lies within the grid g.
WithinGrid(p, g) ==
    /\ Len(g) > 0
    /\ (At(g, 0) * p.den) * (At(g, 0) * p.den) <= NormSq(p)
    /\ WithinRadius(p, At(g, Len(g) - 1))

\* C26: every sample generate_orbital_samples_from_radial returns has a
\* radius that is at most max_radius and lies within the tabulated grid
\* range [rs[0], rs[last]].
C26_RadiusWithinMaxAndGrid ==
    (sampler = FromRadial /\ pc = "returned")
    => \A k \in DOMAIN samples :
          /\ WithinRadius(samples[k], max_radius)
          /\ WithinGrid(samples[k], rs)

\* With positive mass inside max_radius the samples do stay within
\* max_radius and within the grid.
RadiusWithinWhenMassPositive ==
    (sampler = FromRadial /\ pc = "returned"
     /\ \E k \in DOMAIN cdf : cdf[k][1] > 0)
    => \A k \in DOMAIN samples :
          /\ WithinRadius(samples[k], max_radius)
          /\ WithinGrid(samples[k], rs)

(***************************************************************************)
(* The functions of the web server that pick orbitals out of an LDA        *)
(* dataset: select_lda_orbital, select_lda_orbital_pair and                *)
(* valence_orbitals.  An orbital is the record of its n and l; occupancy   *)
(* and eigenvalues are maps from (n, l), an absent key being None.         *)
(***************************************************************************)
MaxOrbitals == 3

OrbitalKinds == {[n |-> 1, l |-> 0], [n |-> 2, l |-> 0], [n |-> 2, l |-> 1]}

\* data.orbitals: up to MaxOrbitals orbitals, repeated (n, l) included.
OrbitalSeqs == UNION {[1..k -> OrbitalKinds] : k \in 0..MaxOrbitals}

\* The (n, l) a caller asks for, some of them in no dataset.
RequestedNs == {1, 2}

RequestedLs == {0, 1}

\* data.occupancy: absent, zero, and two positive occupancies.
OccupancyMaps == [OrbitalKinds -> {None, Some(0), Some(1), Some(2)}]

Eigen(e10, e20, e21) ==
    [k \in OrbitalKinds |->
        IF k.n = 1 THEN e10 ELSE IF k.l = 0 THEN e20 ELSE e21]

\* data.eigenvalues: none, all (rising with (n, l), falling, with a tie),
\* and one missing.
EigenMaps ==
    {Eigen(None, None, None),
     Eigen(Some(-3), Some(-2), Some(-1)),
     Eigen(Some(-1), Some(-2), Some(-3)),
     Eigen(Some(-2), Some(-2), Some(-1)),
     Eigen(Some(-1), None, Some(-2))}

\* data.valence_electrons.
ValenceCounts == {0, 1, 3}

DatasetCalls ==
    {[fn |-> "select_lda_orbital", orbitals |-> os, n |-> n, l |-> l] :
        os \in OrbitalSeqs, n \in RequestedNs, l \in RequestedLs}
    \cup {[fn |-> "select_lda_orbital_pair", orbitals |-> os,
           n1 |-> n1, l1 |-> l1, n2 |-> n2, l2 |-> l2] :
             os \in OrbitalSeqs, n1 \in RequestedNs, l1 \in RequestedLs,
             n2 \in RequestedNs, l2 \in RequestedLs}
    \cup {[fn |-> "valence_orbitals", orbitals |-> os, occupancy |-> occ,
           eigenvalues |-> eig, valence_electrons |-> v] :
             os \in OrbitalSeqs, occ \in OccupancyMaps, eig \in EigenMaps,
             v \in ValenceCounts}

\* The first index of a non-empty set of indices.
FirstOf(S) == CHOOSE k \in S : \A j \in S : k <= j

\* The loop returns at the first orbital with the requested n and l; failing
\* that the first with the requested l; failing that the first orbital.
select_lda_orbital(orbs, n, l) ==
    LET exact  == {k \in DOMAIN orbs : orbs[k].l = l /\ orbs[k].n = n}
        same_l == {k \in DOMAIN orbs : orbs[k].l = l}
    IN  IF exact # {}
        THEN Some([orb |-> orbs[FirstOf(exact)], exact |-> TRUE])
        ELSE IF same_l # {}
        THEN Some([orb |-> orbs[FirstOf(same_l)], exact |-> FALSE])
        ELSE IF Len(orbs) > 0
        THEN Some([orb |-> orbs[1], exact |-> FALSE])
        ELSE None

Differs_InN(a, b) == a.n # b.n

\* orb_b.n != orb_a.n || orb_b.l != orb_a.l
Differs(a, b) == a.n # b.n \/ a.l # b.l

select_lda_orbital_pair(orbs, n1, l1, n2, l2) ==
    LET sel_a == select_lda_orbital(orbs, n1, l1)
        sel_b == select_lda_orbital(orbs, n2, l2)
    IN  IF sel_a = None THEN None
        ELSE LET orb_a == sel_a.val.orb
                 others == {k \in DOMAIN orbs : Differs(orbs[k], orb_a)}
             IN  IF sel_b # None /\ Differs(sel_b.val.orb, orb_a)
                 THEN Some([orb_a |-> orb_a, exact_a |-> sel_a.val.exact,
                            orb_b |-> sel_b.val.orb,
                            exact_b |-> sel_b.val.exact])
                 ELSE IF others # {}
                 THEN Some([orb_a |-> orb_a, exact_a |-> sel_a.val.exact,
                            orb_b |-> orbs[FirstOf(others)],
                            exact_b |-> FALSE])
                 ELSE None

InitDataset ==
    /\ IdleQN
    /\ IdleCall
    /\ IdleRadial
    /\ IdleTab
    /\ IdleHandler
    /\ IdleSuper
    /\ IdleEnergy
    /\ IdleRecon
    /\ IdleCache
    /\ IdleTrials
    /\ IdleEnvelope
    /\ IdleViewer
    /\ build = "release"
    /\ pc = "fn_call"
    /\ fn_args \in DatasetCalls
    /\ fn_ret = <<>>

SelectLdaOrbital ==
    /\ pc = "fn_call"
    /\ fn_args.fn = "select_lda_orbital"
    /\ fn_ret' = select_lda_orbital(fn_args.orbitals, fn_args.n, fn_args.l)
    /\ pc' = "fn_return"
    /\ UNCHANGED notPure

SelectLdaOrbitalPair ==
    /\ pc = "fn_call"
    /\ fn_args.fn = "select_lda_orbital_pair"
    /\ fn_ret' = select_lda_orbital_pair(fn_args.orbitals, fn_args.n1,
                                         fn_args.l1, fn_args.n2, fn_args.l2)
    /\ pc' = "fn_return"
    /\ UNCHANGED notPure

\* The entries of `occupied`: the orbitals whose occupancy is present and
\* positive, each with its eigenvalue (None standing for the NEG_INFINITY
\* of a missing one), in the order of data.orbitals.
OccupiedEntries(data) ==
    LET idx == SelectSeq([k \in 1..Len(data.orbitals) |-> k],
                         LAMBDA k :
                            /\ data.occupancy[data.orbitals[k]] # None
                            /\ data.occupancy[data.orbitals[k]].val > 0)
    IN  [i \in 1..Len(idx) |->
            [orb    |-> data.orbitals[idx[i]],
             occ    |-> data.occupancy[data.orbitals[idx[i]]].val,
             energy |-> data.eigenvalues[data.orbitals[idx[i]]]]]

\* occupied.iter().any(|o| o.2.is_finite())
UseEnergy(occupied) == \E i \in DOMAIN occupied : occupied[i].energy # None

\* b.2.partial_cmp(&a.2) is Less: a has the greater eigenvalue.
EnergyBefore(a, b) ==
    /\ a.energy # None
    /\ b.energy = None \/ a.energy.val > b.energy.val

\* (b.0.n, b.0.l).cmp(&(a.0.n, a.0.l)) is Less: a has the greater (n, l).
ShellBefore(a, b) ==
    \/ a.orb.n > b.orb.n
    \/ a.orb.n = b.orb.n /\ a.orb.l > b.orb.l

\* sort_by, a stable sort: the place of entry i is after the entries that
\* compare before it and after the earlier entries that compare equal.
StableSort(list, Before(_, _)) ==
    LET place(i) ==
            1 + Cardinality({j \in DOMAIN list :
                                \/ Before(list[j], list[i])
                                \/ ~Before(list[i], list[j]) /\ j < i})
    IN  [p \in 1..Len(list) |->
            list[CHOOSE i \in DOMAIN list : place(i) = p]]

SortedOccupied(occupied) ==
    IF UseEnergy(occupied) THEN StableSort(occupied, EnergyBefore)
    ELSE StableSort(occupied, ShellBefore)

Exhausted_BelowZero(left) == left < 0

\* if left <= 0.0 { break; }
Exhausted(left) == left <= 0

RECURSIVE TakeOrbitals(_, _, _)
\* The loop over the sorted entries from entry i on.
TakeOrbitals(list, i, left) ==
    IF i > Len(list) \/ Exhausted(left) THEN <<>>
    ELSE <<[orb |-> list[i].orb, occ |-> list[i].occ]>>
         \o TakeOrbitals(list, i + 1, left - list[i].occ)

valence_orbitals(data) ==
    LET occupied == OccupiedEntries(data)
    IN  IF Len(occupied) = 0
        THEN [out |-> <<>>, note |-> Some("no occupied orbitals in dataset")]
        ELSE IF data.valence_electrons <= 0
        THEN [out |-> <<>>, note |-> Some("valence electron count missing")]
        ELSE [out  |-> TakeOrbitals(SortedOccupied(occupied), 1,
                                    data.valence_electrons),
              note |-> None]

ValenceOrbitals ==
    /\ pc = "fn_call"
    /\ fn_args.fn = "valence_orbitals"
    /\ fn_ret' = valence_orbitals(fn_args)
    /\ pc' = "fn_return"
    /\ UNCHANGED notPure

NextDataset ==
    \/ SelectLdaOrbital
    \/ SelectLdaOrbitalPair
    \/ ValenceOrbitals

SpecDataset == InitDataset /\ [][NextDataset]_vars

\* The orbitals of the dataset that differ from orb in n or in l.
OthersThan(orb) ==
    {k \in DOMAIN fn_args.orbitals :
        <<fn_args.orbitals[k].n, fn_args.orbitals[k].l>> # <<orb.n, orb.l>>}

\* C27: select_lda_orbital_pair never returns the same orbital twice: the
\* two orbitals of a returned pair differ in (n, l); it returns None exactly
\* when the dataset has no orbital whose (n, l) differs from that of the
\* first selected orbital; and an exact flag, of select_lda_orbital and of
\* either member of the pair, is true only when the orbital returned has
\* the requested n and l.
C27_PairDistinctAndExactHonest ==
    /\ (pc = "fn_return" /\ fn_args.fn = "select_lda_orbital_pair")
       => LET sel_a == select_lda_orbital(fn_args.orbitals, fn_args.n1,
                                          fn_args.l1)
          IN  /\ fn_ret # None
                 => /\ <<fn_ret.val.orb_a.n, fn_ret.val.orb_a.l>>
                       # <<fn_ret.val.orb_b.n, fn_ret.val.orb_b.l>>
                    /\ fn_ret.val.orb_a = sel_a.val.orb
                    /\ fn_ret.val.exact_a
                       => /\ fn_ret.val.orb_a.n = fn_args.n1
                          /\ fn_ret.val.orb_a.l = fn_args.l1
                    /\ fn_ret.val.exact_b
                       => /\ fn_ret.val.orb_b.n = fn_args.n2
                          /\ fn_ret.val.orb_b.l = fn_args.l2
              /\ fn_ret = None
                 <=> \/ sel_a = None
                     \/ OthersThan(sel_a.val.orb) = {}
    /\ (pc = "fn_return" /\ fn_args.fn = "select_lda_orbital")
       => /\ fn_ret = None <=> fn_args.orbitals = <<>>
          /\ fn_ret # None
             => /\ \E k \in DOMAIN fn_args.orbitals :
                      fn_args.orbitals[k] = fn_ret.val.orb
                /\ fn_ret.val.exact
                   => /\ fn_ret.val.orb.n = fn_args.n
                      /\ fn_ret.val.orb.l = fn_args.l

\* Both requests select the same orbital and the pair is completed by the
\* first other orbital of the dataset, whose exact flag is false.
C27_SecondReplaced ==
    /\ pc = "fn_return"
    /\ fn_args.fn = "select_lda_orbital_pair"
    /\ fn_args.n1 = fn_args.n2
    /\ fn_args.l1 = fn_args.l2
    /\ fn_ret # None
    /\ fn_ret.val.exact_a
    /\ ~fn_ret.val.exact_b
    /\ fn_ret.val.orb_a.n = fn_ret.val.orb_b.n

\* The occupancy of the orbital orb in the dataset of the call, 0 when it
\* is absent.
OccupancyOf(orb) ==
    IF fn_args.occupancy[orb] = None THEN 0 ELSE fn_args.occupancy[orb].val

\* How often the (n, l) of orb occurs in a list of orbitals.
Occurrences(orbs, orb) == Cardinality({k \in DOMAIN orbs : orbs[k] = orb})

\* No eigenvalue of an occupied orbital of the dataset is finite.
NoFiniteEigenvalue ==
    \A k \in DOMAIN fn_args.orbitals :
       OccupancyOf(fn_args.orbitals[k]) > 0
       => fn_args.eigenvalues[fn_args.orbitals[k]] = None

\* The orbital a does not come after b in the order of the call: by
\* decreasing eigenvalue, a missing one counting as minus infinity, or by
\* decreasing (n, l) when no eigenvalue is finite.
NotAfter(a, b) ==
    IF NoFiniteEigenvalue
    THEN a.n > b.n \/ (a.n = b.n /\ a.l >= b.l)
    ELSE \/ fn_args.eigenvalues[b] = None
         \/ /\ fn_args.eigenvalues[a] # None
            /\ fn_args.eigenvalues[a].val >= fn_args.eigenvalues[b].val

\* The occupancies of the first k returned orbitals, summed.
TakenOccupancy(out, k) == SumSeq([i \in 1..Len(out) |-> out[i].occ], k)

\* C28: valence_orbitals returns the occupied orbitals in order of
\* decreasing eigenvalue (of decreasing (n, l) when no eigenvalue is
\* finite) until their cumulative occupancy reaches valence_electrons: what
\* it returns is a prefix of that order, its occupancies sum to at least
\* valence_electrons unless every occupied orbital was taken, the sum
\* without the last one is below valence_electrons, and it is empty when no
\* orbital is occupied or valence_electrons <= 0.
C28_ValencePrefix ==
    (pc = "fn_return" /\ fn_args.fn = "valence_orbitals")
    => LET out == fn_ret.out
           orbs == fn_args.orbitals
           taken == [i \in 1..Len(out) |-> out[i].orb]
           all_taken ==
               \A k \in DOMAIN orbs :
                  OccupancyOf(orbs[k]) > 0
                  => Occurrences(taken, orbs[k]) = Occurrences(orbs, orbs[k])
       IN  /\ \A i \in DOMAIN out :
                 /\ out[i].occ = OccupancyOf(out[i].orb)
                 /\ out[i].occ > 0
                 /\ Occurrences(taken, out[i].orb)
                    <= Occurrences(orbs, out[i].orb)
           /\ \A i, j \in DOMAIN out : i < j => NotAfter(taken[i], taken[j])
           /\ \A i \in DOMAIN out, k \in DOMAIN orbs :
                 (/\ OccupancyOf(orbs[k]) > 0
                  /\ Occurrences(taken, orbs[k]) < Occurrences(orbs, orbs[k]))
                 => NotAfter(taken[i], orbs[k])
           /\ TakenOccupancy(out, Len(out)) >= fn_args.valence_electrons
              \/ all_taken
           /\ Len(out) > 0
              => TakenOccupancy(out, Len(out) - 1) < fn_args.valence_electrons
           /\ ((\A k \in DOMAIN orbs : OccupancyOf(orbs[k]) <= 0)
               \/ fn_args.valence_electrons <= 0)
              => out = <<>>

\* Three valence electrons are reached by the second of three occupied
\* orbitals, taken by eigenvalue against the order of the dataset; the third
\* is left out.
C28_StopsAtSecond ==
    /\ pc = "fn_return"
    /\ fn_args.fn = "valence_orbitals"
    /\ fn_args.valence_electrons = 3
    /\ Len(fn_args.orbitals) = 3
    /\ \A k \in DOMAIN fn_args.orbitals :
          OccupancyOf(fn_args.orbitals[k]) > 0
    /\ Len(fn_ret.out) = 2
    /\ TakenOccupancy(fn_ret.out, 2) = 3
    /\ fn_ret.out[1].orb = fn_args.orbitals[3]
    /\ fn_ret.out[1].orb # fn_args.orbitals[1]

(***************************************************************************)
(* The native viewer (main.rs): AppState, its keyboard handler and         *)
(* generate_vertices, which samples again only when samples_dirty is set   *)
(* or the cache is empty.  app_state is AppState; rotations count steps of  *)
(* 0.1 rad; a cached sample list is a list of sample tokens.               *)
(***************************************************************************)
\* The "+" key is followed at particle counts from GrowFrom up, and not
\* past MaxParticles; the "-" key everywhere.
MaxParticles == 120000

GrowFrom == 50000

\* The rotations stay within this many key presses of zero.
MaxTurn == 1

\* What generate_orbital_samples may return: any number of samples from
\* none (every attempt rejected) up.
SampleLists == {<<>>, <<"p">>, <<"q">>, <<"p", "q">>}

\* The keys "1" to "5": 1s, 2s, 2p, 3d, 4f with m = 0.
OrbitalKeys ==
    [k \in 1..5 |->
        CASE k = 1 -> <<1, 0, 0>>
          [] k = 2 -> <<2, 0, 0>>
          [] k = 3 -> <<2, 1, 0>>
          [] k = 4 -> <<3, 2, 0>>
          [] k = 5 -> <<4, 3, 0>>]

AppState_new ==
    [quantum_n     |-> 2,
     quantum_l     |-> 1,
     quantum_m     |-> 0,
     num_particles |-> 50000,
     rotation_x    |-> 0,
     rotation_y    |-> 0,
     samples       |-> <<>>,
     samples_dirty |-> TRUE]

InitViewer ==
    /\ IdleQN
    /\ IdleCall
    /\ IdleRadial
    /\ IdleTab
    /\ IdleHandler
    /\ IdleSuper
    /\ IdleEnergy
    /\ IdleRecon
    /\ IdleCache
    /\ IdleTrials
    /\ IdleEnvelope
    /\ IdlePure
    /\ build \in Builds
    /\ pc = "startup"
    /\ app_state = AppState_new

\* What the viewer never touches.
notViewer ==
    <<build, varsQN, varsCall, varsRadial, varsTab, varsHandler, varsSuper,
      varsEnergy, varsRecon, varsCache, trials, varsEnvelope, varsPure>>

NeedsResample_Always(s) == TRUE

\* if self.samples_dirty || self.samples.is_empty()
NeedsResample(s) == s.samples_dirty \/ s.samples = <<>>

\* generate_vertices: the cache is sampled again when NeedsResample, and
\* left alone otherwise; the vertices are computed from it either way.
GenerateVertices ==
    IF NeedsResample(app_state)
    THEN LET new_qn == QuantumNumbers_new(build, app_state.quantum_n,
                                          app_state.quantum_l,
                                          app_state.quantum_m)
         IN  IF new_qn = Panic
             THEN pc' = "panicked" /\ UNCHANGED app_state
             ELSE IF new_qn = None
             THEN pc' = "running" /\ UNCHANGED app_state
             ELSE /\ pc' = "running"
                  /\ \E list \in SampleLists :
                        app_state' = [app_state EXCEPT
                                        !.samples = list,
                                        !.samples_dirty = FALSE]
    ELSE pc' = "running" /\ UNCHANGED app_state

\* main generates the initial orbital before the event loop starts.
InitialVertices ==
    /\ pc = "startup"
    /\ GenerateVertices
    /\ UNCHANGED notViewer

\* WindowEvent::RedrawRequested
Redraw ==
    /\ pc = "running"
    /\ GenerateVertices
    /\ UNCHANGED notViewer

KeyOrbital ==
    /\ pc = "running"
    /\ \E k \in DOMAIN OrbitalKeys :
          app_state' = [app_state EXCEPT
                          !.quantum_n = OrbitalKeys[k][1],
                          !.quantum_l = OrbitalKeys[k][2],
                          !.quantum_m = OrbitalKeys[k][3],
                          !.samples_dirty = TRUE]
    /\ UNCHANGED <<pc, notViewer>>

\* "+" or "=": (num_particles as f32 * 1.5) as usize, exact below 2^24.
KeyMoreParticles ==
    /\ pc = "running"
    /\ app_state.num_particles >= GrowFrom
    /\ (app_state.num_particles * 3) \div 2 <= MaxParticles
    /\ app_state' = [app_state EXCEPT
                       !.num_particles = (app_state.num_particles * 3) \div 2,
                       !.samples_dirty = TRUE]
    /\ UNCHANGED <<pc, notViewer>>

\* "-": (num_particles / 2).max(1000)
KeyFewerParticles ==
    /\ pc = "running"
    /\ app_state' = [app_state EXCEPT
                       !.num_particles =
                          Max(app_state.num_particles \div 2, 1000),
                       !.samples_dirty = TRUE]
    /\ UNCHANGED <<pc, notViewer>>

\* "m": quantum_m = (quantum_m + 1).min(quantum_l as i32)
KeyM ==
    /\ pc = "running"
    /\ app_state' = [app_state EXCEPT
                       !.quantum_m = Min(app_state.quantum_m + 1,
                                         app_state.quantum_l),
                       !.samples_dirty = TRUE]
    /\ UNCHANGED <<pc, notViewer>>

\* "n": quantum_m = (quantum_m - 1).max(-(quantum_l as i32))
KeyN ==
    /\ pc = "running"
    /\ app_state' = [app_state EXCEPT
                       !.quantum_m = Max(app_state.quantum_m - 1,
                                         -app_state.quantum_l),
                       !.samples_dirty = TRUE]
    /\ UNCHANGED <<pc, notViewer>>

\* ArrowLeft, ArrowRight: rotation_y -= 0.1, += 0.1.
KeyArrowY ==
    /\ pc = "running"
    /\ \E d \in {-1, 1} :
          /\ app_state.rotation_y + d \in -MaxTurn..MaxTurn
          /\ app_state' = [app_state EXCEPT !.rotation_y = @ + d]
    /\ UNCHANGED <<pc, notViewer>>

\* ArrowUp, ArrowDown: rotation_x -= 0.1, += 0.1.
KeyArrowX ==
    /\ pc = "running"
    /\ \E d \in {-1, 1} :
          /\ app_state.rotation_x + d \in -MaxTurn..MaxTurn
          /\ app_state' = [app_state EXCEPT !.rotation_x = @ + d]
    /\ UNCHANGED <<pc, notViewer>>

NextViewer ==
    \/ InitialVertices
    \/ Redraw
    \/ KeyOrbital
    \/ KeyMoreParticles
    \/ KeyFewerParticles
    \/ KeyM
    \/ KeyN
    \/ KeyArrowY
    \/ KeyArrowX

SpecViewer == InitViewer /\ [][NextViewer]_vars

\* The quantum numbers of the viewer are valid and QuantumNumbers::new
\* accepts them.
ViewerQuantumNumbersValid ==
    /\ ValidQN(app_state.quantum_n, app_state.quantum_l, app_state.quantum_m)
    /\ QuantumNumbers_new(build, app_state.quantum_n, app_state.quantum_l,
                          app_state.quantum_m)
       = Some([n |-> app_state.quantum_n, l |-> app_state.quantum_l,
               m_l |-> app_state.quantum_m])
    /\ pc # "panicked"

\* A step that changes a rotation does not set samples_dirty.
RotationLeavesCacheClean ==
    (\/ app_state'.rotation_x # app_state.rotation_x
     \/ app_state'.rotation_y # app_state.rotation_y)
    => /\ app_state'.samples_dirty = app_state.samples_dirty
       /\ app_state'.samples = app_state.samples

SpecHandlerLive == SpecHandler /\ WF_vars(NextHandler)

\* The LDA dataset is skipped for this request.
SkipsLda == z = 1 /\ mode \in {"orbital", "superposition"}

\* The sources are consulted in the order LDA, PSlibrary, hydrogenic.
StagesInOrder ==
    stage' # stage
    => <<stage, stage'>> \in {<<"none", "openmx_lda">>,
                              <<"openmx_lda", "pslibrary">>,
                              <<"pslibrary", "hydrogenic">>}

\* What the source of a response says about the request.
SourceJustified ==
    pc = "responded"
    => /\ response.source \in {"openmx_lda", "pslibrary", "hydrogenic"}
       /\ response.source = "openmx_lda" => (~SkipsLda /\ lda = "found")
       /\ response.source = "pslibrary"
          => /\ mode = "orbital"
             /\ z # 1
             /\ pslib # "unavailable"
             /\ ~(~SkipsLda /\ lda = "found")
       /\ response.source = "hydrogenic"
          => /\ ~(~SkipsLda /\ lda = "found")
             /\ ~(mode = "orbital" /\ z # 1 /\ pslib # "unavailable")
       /\ SkipsLda => response.source = "hydrogenic"

\* C30: the /samples handler consults its data sources in a fixed order and
\* always ends with a JSON response: the LDA dataset first (skipped when
\* z = 1 and the mode is Orbital or Superposition), then the PSlibrary
\* dataset only when the mode is Orbital and z != 1, then the hydrogenic
\* model; a response whose source is openmx_lda or pslibrary is produced
\* only after that dataset loaded, and a request with z = 1 in Orbital or
\* Superposition mode always yields the source hydrogenic.
C30_OrderedSourcesAlwaysRespond ==
    /\ <>(pc = "responded")
    /\ []SourceJustified
    /\ [][StagesInOrder]_vars

\* The order and the sources without the promise of a response.
OrderedSources == []SourceJustified /\ [][StagesInOrder]_vars

\* Every request other than those with m or m2 = i32::MIN ends with a
\* response.
RespondsUnlessOverflow ==
    (arg_m # I32Min /\ second[3] # I32Min) => <>(pc = "responded")

====
